---------------------------- MODULE Spec2Model ----------------------------
(***************************************************************************)
(* A model of the research-ideation service.                               *)
(*                                                                         *)
(*   Spec      the synthesis pipeline behind POST /analyze                 *)
(*             (src/app.py: ResearchPipeline.process and its six stages),  *)
(*             one step per generation call or per branch taken without a  *)
(*             call.                                                       *)
(*   SpecRank  SOTAIdentifier._compute_final_ranking applied to a list of  *)
(*             scored, enriched candidates                                 *)
(*             (src/services/sota_identifier.py).                          *)
(*   SpecSota  SOTAIdentifier.identify_sota from the arXiv search to the   *)
(*             returned result (src/services/sota_identifier.py,           *)
(*             api_wrapper.py, semantic_engine.py), one step per numbered  *)
(*             step of the method.                                         *)
(*   SpecProcess  the pipeline of Spec on documents with four long         *)
(*             sections, with weak fairness of its steps.                  *)
(*   SpecMine  WeaknessExtractor.extract_from_paper for both documents,    *)
(*             started after the parsing on parsed documents drawn from a  *)
(*             bounded set (src/app.py).                                   *)
(*   SpecText  the text functions of the stages, applied to texts drawn    *)
(*             from bounded sets: the list extraction of                   *)
(*             WeaknessExtractor._extract_from_section, the parsing loop   *)
(*             of WeaknessNormalizer.normalize and the cleaning and        *)
(*             decoding every JSON stage does (src/app.py).                *)
(*   SpecKeyword  SemanticEngine._keyword_score_papers applied to queries  *)
(*             and papers whose texts are short sequences of words         *)
(*             (src/services/semantic_engine.py).                          *)
(*                                                                         *)
(* Texts are abstracted to an identity and a length: a JSON string is      *)
(* [t |-> "str", id |-> ..., len |-> ...].  Two strings are equal exactly  *)
(* when both agree.  A generation response is the text the service sent:   *)
(* optional prose, an optional code fence and a body, see Loads.           *)
(***************************************************************************)
EXTENDS Integers, Sequences, FiniteSets, TLC

VARIABLES
    text,        \* doc -> length of the plain text extracted from the upload
    pc,          \* position of ResearchPipeline.process
    sec,         \* extract_from_paper: index of the section the loop is at
    paper,       \* doc -> ParsedPaper (or NoPaper before stage 1)
    raw,         \* doc -> all_weaknesses of extract_from_paper
    norm,        \* doc -> result of WeaknessNormalizer.normalize
    analysis,    \* WeaknessAnalysis returned by WeaknessFusion.analyze
    proposed,    \* ProposedMethod returned by MethodSynthesizer.synthesize
    results,     \* the results dict of process, key -> value
    reply,       \* what analyze() sends back: status and body
    calls,       \* number of chat_completion calls issued so far
    gen_failed,  \* history: some chat_completion call raised
    path,        \* history: stage -> "none" | "parsed" | "fallback"
    rk_pc,       \* _compute_final_ranking: "idle" | "call" | "returned"
    rk_now,      \* datetime.now() as a day number
    rk_papers,   \* the papers argument
    rk_top_k,    \* the top_k argument
    rk_scored,   \* history: the sub-scores computed for each paper, in
                 \* argument order
    rk_out,      \* the list returned
    st_pc,       \* identify_sota: "idle" | "search" | "rank" | "enrich" |
                 \* "final" | "returned" | "raised"
    st_args,     \* its arguments and datetime.now() as a day number
    st_feed,     \* the entries of the Atom feed arXiv would answer with
    arxiv_results,  \* what ArxivWrapper.search returned
    ranked_papers,  \* the local of that name
    result,      \* the dict identify_sota returns
    tx_pc,       \* the list extraction: "idle" | "call" | "returned"
    tx_response, \* the response text, a sequence of lines
    tx_weaknesses,  \* the list _extract_from_section returned
    nz_pc,       \* the parsing loop of normalize: "idle" | "call" | "returned"
    nz_normalized,  \* the list it built from tx_response
    js_pc,       \* the decoding: "idle" | "call" | "returned"
    js_object,   \* the text of a JSON object
    js_out,      \* form -> what the stages make of the object sent in
                 \* that form
    kw_pc,       \* _keyword_score_papers: "idle" | "call" | "returned"
    kw_query,    \* the query, a sequence of words
    kw_papers,   \* the papers argument: title and abstract, each a
                 \* sequence of words
    kw_out       \* the list returned

synthVars == <<text, pc, sec, paper, raw, norm, analysis, proposed, results,
               reply, calls, gen_failed, path>>

rankVars == <<rk_pc, rk_now, rk_papers, rk_top_k, rk_scored, rk_out>>

sotaVars == <<st_pc, st_args, st_feed, arxiv_results, ranked_papers, result>>

textVars == <<tx_pc, tx_response, tx_weaknesses, nz_pc, nz_normalized,
              js_pc, js_object, js_out,
              kw_pc, kw_query, kw_papers, kw_out>>

vars == <<synthVars, rankVars, sotaVars, textVars>>

Docs == {"A", "B"}

(***************************************************************************)
(* JSON values                                                             *)
(***************************************************************************)
Null == [t |-> "null"]
Num == [t |-> "num"]
Absent == [t |-> "absent"]
Str(id, n) == [t |-> "str", id |-> id, len |-> n]
List(items) == [t |-> "list", items |-> items]
Obj(f) == [t |-> "obj", f |-> f]
NotJson == [t |-> "notjson"]

\* Python truthiness of a value held in a JSON-decoded field
Truthy(v) ==
    CASE v.t = "null" -> FALSE
      [] v.t = "absent" -> FALSE
      [] v.t = "str" -> v.len > 0
      [] v.t = "list" -> Len(v.items) > 0
      [] OTHER -> TRUE

Min(a, b) == IF a < b THEN a ELSE b
Max(a, b) == IF a < b THEN b ELSE a

Range(s) == {s[i] : i \in DOMAIN s}

(***************************************************************************)
(* The cleaning every JSON stage applies before json.loads:                *)
(*   response.strip(); if '```json' occurs, the text between its first     *)
(*   occurrence and the next '```'; else if '```' occurs, the text between *)
(*   the first two; json.loads of what is left.                            *)
(* A response text is a sequence of pieces: Fence (three backticks), Tag   *)
(* (the letters json), Prose (words that are no JSON), Nl (white space),   *)
(* Val(v) (the complete text of the JSON value v, free of backticks),      *)
(* Open and Close (an object text up to the inside of the string of its    *)
(* one field, and the rest of it) and Digit (a number literal, which a     *)
(* string may hold as well).                                               *)
(***************************************************************************)
Fence == [k |-> "fence"]
Tag == [k |-> "tag"]
Prose == [k |-> "prose"]
Nl == [k |-> "nl"]
Val(v) == [k |-> "val", v |-> v]
Open == [k |-> "open"]
Close == [k |-> "close"]
Digit == [k |-> "digit"]

Fences == {"none", "json", "bare"}

\* the text of a body: a JSON value, or words when the body is no JSON
TextOf(body) == IF body.t = "notjson" THEN <<Prose>> ELSE <<Val(body)>>

\* a body the way services send it: prose before, maybe a fence around it,
\* prose after
Resp(pre, fence, body, post) ==
    (IF pre THEN <<Prose, Nl>> ELSE <<>>)
    \o (CASE fence = "json" -> <<Fence, Tag, Nl>>
          [] fence = "bare" -> <<Fence, Nl>>
          [] OTHER -> <<>>)
    \o TextOf(body)
    \o (IF fence = "none" THEN <<>> ELSE <<Nl, Fence>>)
    \o (IF post THEN <<Nl, Prose>> ELSE <<>>)

Plain(body) == Resp(FALSE, "none", body, FALSE)

\* str.strip()
RECURSIVE Strip(_)
Strip(t) ==
    IF t = <<>> THEN t
    ELSE IF Head(t) = Nl THEN Strip(Tail(t))
    ELSE IF t[Len(t)] = Nl THEN Strip(SubSeq(t, 1, Len(t) - 1))
    ELSE t

\* positions where '```json' starts, and where '```' starts
JsonFenceAt(t) == {i \in 1..(Len(t) - 1) : t[i] = Fence /\ t[i + 1] = Tag}
FenceAt(t) == {i \in 1..Len(t) : t[i] = Fence}

First(S) == CHOOSE i \in S : \A j \in S : i <= j

\* t.split('```')[0]
UpToFence(t) ==
    IF FenceAt(t) = {} THEN t ELSE SubSeq(t, 1, First(FenceAt(t)) - 1)

\* the two branches that cut the text out of its fence
Clean(response) ==
    LET t == Strip(response) IN
    IF JsonFenceAt(t) # {}
    THEN UpToFence(SubSeq(t, First(JsonFenceAt(t)) + 2, Len(t)))
    ELSE IF FenceAt(t) # {}
    THEN UpToFence(SubSeq(t, First(FenceAt(t)) + 1, Len(t)))
    ELSE t

\* json.loads: the value when the text, white space at its ends aside, is
\* exactly one JSON value; NotJson (JSONDecodeError) otherwise
JsonLoads(cleaned) ==
    LET u == Strip(cleaned) IN
    IF Len(u) = 1 /\ u[1].k = "val" THEN u[1].v
    ELSE IF Len(u) = 1 /\ u[1].k = "digit" THEN Num
    ELSE IF /\ Len(u) >= 2
            /\ u[1].k = "open"
            /\ u[Len(u)].k = "close"
            /\ \A i \in 2..(Len(u) - 1) :
                  u[i].k \in {"fence", "tag", "prose", "digit"}
    THEN Obj([title |-> Str(SubSeq(u, 2, Len(u) - 1), Len(u) - 2)])
    ELSE NotJson

Loads(r) == JsonLoads(Clean(r))

\* dict.get(key) of a decoded object held as a record: None when missing
Get(obj, key) ==
    IF key \in DOMAIN obj.f /\ obj.f[key].t # "absent" THEN obj.f[key] ELSE Null

\* dict.get(key, default)
GetOr(obj, key, default) ==
    IF key \in DOMAIN obj.f /\ obj.f[key].t # "absent" THEN obj.f[key] ELSE default

(***************************************************************************)
(* GroqClient.chat_completion: the request either yields the text of the   *)
(* first choice or raises (transport error, non-success status, malformed  *)
(* body); the except clause prints and re-raises.                          *)
(***************************************************************************)
HttpFailures == {"transport", "status", "malformed"}

(***************************************************************************)
(* STEP 1: PaperParser.parse_pdf                                           *)
(***************************************************************************)
NoPaper == [paper_id |-> "-", title |-> Absent, abstract |-> Absent,
            method |-> Absent, experiments |-> Absent, limitations |-> Absent]

PaperFields == {"title", "abstract", "method", "experiments", "limitations"}

\* text[:n] without the guard on an empty text
Prefix_unguarded(id, len, n) == Str(id, Min(len, n))

\* text[:n] of the raw text, or None when the text is empty
Prefix(id, len, n) == IF len > 0 THEN Str(id, Min(len, n)) ELSE Null

AbstractFallbackLen == 500
MethodFallbackLen == 2000

\* the except json.JSONDecodeError branch
parse_pdf_fallback(len, paper_id) ==
    [paper_id |-> paper_id,
     title |-> Str("Unknown", 7),
     abstract |-> Prefix("raw", len, AbstractFallbackLen),
     method |-> Prefix("raw", len, MethodFallbackLen),
     experiments |-> Null,
     limitations |-> Null]

\* The debug prints between json.loads and the return: the title is sliced
\* when truthy and len() is taken of every other field that is not falsy.
PrintsRaise(data) ==
    \/ Get(data, "title").t = "num"
    \/ \E k \in PaperFields \ {"title"} : Get(data, k).t = "num"

\* What parse_pdf does with the response text: [exc, paper, path].
parse_pdf(len, response, paper_id) ==
    LET data == Loads(response) IN
    IF data.t = "notjson"
    THEN [exc |-> "none", paper |-> parse_pdf_fallback(len, paper_id),
          path |-> "fallback"]
    ELSE IF data.t # "obj"
    THEN [exc |-> "AttributeError", paper |-> NoPaper, path |-> "parsed"]
    ELSE IF PrintsRaise(data)
    THEN [exc |-> "TypeError", paper |-> NoPaper, path |-> "parsed"]
    ELSE [exc |-> "none",
          paper |-> [paper_id |-> paper_id,
                     title |-> Get(data, "title"),
                     abstract |-> Get(data, "abstract"),
                     method |-> Get(data, "method"),
                     experiments |-> Get(data, "experiments"),
                     limitations |-> Get(data, "limitations")],
          path |-> "parsed"]

ParseBodies ==
    { NotJson,
      List(<<>>),
      Obj([title |-> Absent, abstract |-> Absent, method |-> Absent,
           experiments |-> Absent, limitations |-> Absent]),
      Obj([title |-> Str("title", 40), abstract |-> Str("abs", 300),
           method |-> Str("meth", 51), experiments |-> Str("exp", 50),
           limitations |-> Str("", 0)]),
      Obj([title |-> Null, abstract |-> Str("abs", 40), method |-> Null,
           experiments |-> Null, limitations |-> Null]),
      Obj([title |-> Str("title", 40), abstract |-> Num, method |-> Null,
           experiments |-> Null, limitations |-> Null]) }

\* the ways a service wraps a body: bare, fenced with prose around it, in a
\* fence without a language tag, or with prose before it and no fence
Wrappings(bodies) ==
    UNION { { Plain(b), Resp(TRUE, "json", b, TRUE), Resp(FALSE, "bare", b, FALSE),
              Resp(TRUE, "none", b, FALSE) } : b \in bodies }

ParseResponses == Wrappings(ParseBodies)

(***************************************************************************)
(* STEP 2: WeaknessExtractor                                               *)
(***************************************************************************)
\* the sections with the abstract moved to the front
Sections_abstract_first ==
    <<"abstract", "method", "experiments", "limitations">>

\* the sections with the abstract mined a second time
Sections_abstract_twice ==
    <<"method", "experiments", "limitations", "abstract", "abstract">>

Sections == <<"method", "experiments", "limitations", "abstract">>

MinSectionLen == 50

\* if section_text and len(section_text) > 50
Mined(v) == Truthy(v) /\ v.t = "str" /\ v.len > MinSectionLen

\* A response line after strip(): its leading marker and the rest, stripped.
\* Markers: "-", "*", "literal" (the three characters U+201A U+00C4 U+00A2
\* that the source file spells between the quotes of its second
\* startswith), "bullet" (the bullet character U+2022), "dash" (an en
\* dash), "1." and "1)" (one digit), "12." and "12)" (several digits),
\* "" (no marker).
Line(mark, item) == [mark |-> mark, item |-> item]

BulletMarks == {"-", "*", "literal"}
DigitMarks == {"1.", "1)"}

\* weakness.lower() for the texts the model uses
Lower(id) ==
    CASE id = "N/A" -> "n/a"
      [] id = "None" -> "none"
      [] id = "Not applicable" -> "not applicable"
      [] OTHER -> id

\* the loop of _extract_from_section over response.split('\n')
KeptBySection(l) ==
    \/ /\ l.mark \in BulletMarks
       /\ l.item.len > 0
       /\ Lower(l.item.id) \notin {"none", "n/a", "not applicable"}
    \/ /\ l.mark \in DigitMarks
       /\ l.item.len > 0
       /\ Lower(l.item.id) \notin {"none", "n/a"}

Items(lines) == [i \in DOMAIN lines |-> lines[i].item]

_extract_from_section(response) == Items(SelectSeq(response, KeptBySection))

MinerResponses ==
    { << Line("", Str("prose", 30)), Line("12.", Str("w3", 20)),
         Line("bullet", Str("w4", 15)) >>,
      << Line("-", Str("w1", 17)), Line("*", Str("N/A", 3)),
         Line("1.", Str("w2", 16)), Line("", Str("prose", 12)),
         Line("1)", Str("Not applicable", 14)) >> }

(***************************************************************************)
(* STEP 3: WeaknessNormalizer                                              *)
(***************************************************************************)
MinNormalizedLen == 10

\* the loop of normalize over response.split('\n')
KeptByNormalizer(l) ==
    /\ l.mark \in BulletMarks
    /\ l.item.len > 0
    /\ l.item.len > MinNormalizedLen

normalize_parse(response) == Items(SelectSeq(response, KeptByNormalizer))

NormalizerResponses ==
    { << Line("", Str("prose", 30)) >>,
      << Line("-", Str("n1", 40)), Line("-", Str("n2", 45)) >>,
      << Line("*", Str("n2", 45)), Line("literal", Str("n3", 11)),
         Line("-", Str("n4", 10)), Line("1.", Str("n5", 50)),
         Line("-", Str("n2", 45)) >> }

(***************************************************************************)
(* STEP 4: WeaknessFusion                                                  *)
(***************************************************************************)
NoAnalysis ==
    [shared |-> Absent, paper_a_only |-> Absent, paper_b_only |-> Absent]

\* list(s) of a Python set: the elements once each, in an order the hash
\* seed of the process decides
ListsOf(S) ==
    { q \in [1..Cardinality(S) -> S] : Range(q) = S }

\* FallbackSets with the subtraction of set_b forgotten in paper_a_only
FallbackSets_no_difference(weaknesses_a, weaknesses_b) ==
    LET set_a == Range(weaknesses_a)
        set_b == Range(weaknesses_b)
    IN [shared |-> set_a \cap set_b,
        paper_a_only |-> set_a,
        paper_b_only |-> set_b \ set_a]

\* the bare except branch: set_a & set_b, set_a - set_b, set_b - set_a
FallbackSets(weaknesses_a, weaknesses_b) ==
    LET set_a == Range(weaknesses_a)
        set_b == Range(weaknesses_b)
    IN [shared |-> set_a \cap set_b,
        paper_a_only |-> set_a \ set_b,
        paper_b_only |-> set_b \ set_a]

FusionFallbacks(weaknesses_a, weaknesses_b) ==
    LET f == FallbackSets(weaknesses_a, weaknesses_b) IN
    { [shared |-> List(s), paper_a_only |-> List(a), paper_b_only |-> List(b)] :
        s \in ListsOf(f.shared), a \in ListsOf(f.paper_a_only),
        b \in ListsOf(f.paper_b_only) }

\* The analyses WeaknessFusion.analyze may return for a response text: the
\* decoded fields when json.loads yields an object, else (JSONDecodeError, or
\* AttributeError of .get on a value that is no object) the fallback.
fusion_analyze(response, weaknesses_a, weaknesses_b) ==
    LET data == Loads(response) IN
    IF data.t = "obj"
    THEN { [shared |-> GetOr(data, "shared", List(<<>>)),
            paper_a_only |-> GetOr(data, "paper_a_only", List(<<>>)),
            paper_b_only |-> GetOr(data, "paper_b_only", List(<<>>))] }
    ELSE FusionFallbacks(weaknesses_a, weaknesses_b)

fusion_path(response) == IF Loads(response).t = "obj" THEN "parsed" ELSE "fallback"

InB(weaknesses_b, w) == w \in Range(weaknesses_b)

\* bodies a generation service may answer with for the lists (A, B)
FusionBodies(A, B) ==
    { NotJson,
      List(<<>>),
      Obj([shared |-> Absent, paper_a_only |-> Absent, paper_b_only |-> Absent]),
      Obj([shared |-> List(SelectSeq(A, LAMBDA w : InB(B, w))),
           paper_a_only |-> List(SelectSeq(A, LAMBDA w : ~InB(B, w))),
           paper_b_only |-> List(SelectSeq(B, LAMBDA w : ~InB(A, w)))]),
      Obj([shared |-> List(<<Str("merged", 60)>>), paper_a_only |-> List(A),
           paper_b_only |-> Absent]),
      Obj([shared |-> Null, paper_a_only |-> List(A), paper_b_only |-> List(B)]) }

(***************************************************************************)
(* STEP 5: MethodSynthesizer                                               *)
(***************************************************************************)
NoMethod == [method_name |-> Absent, core_idea |-> Absent,
             components |-> Absent, addresses_weaknesses |-> Absent]

\* all_weaknesses = analysis.shared + analysis.paper_a_only + analysis.paper_b_only
\* raises TypeError unless the three are lists
ConcatRaises(an) ==
    \E k \in {"shared", "paper_a_only", "paper_b_only"} : an[k].t # "list"

DefaultMethod ==
    [method_name |-> Str("Unified Adaptive Hybrid Framework", 33),
     core_idea |-> Str("default core idea", 152),
     components |-> List(<< Str("Adaptive Integration Module", 79),
                            Str("Scalability Enhancement Layer", 74),
                            Str("Generalization Mechanism", 61),
                            Str("Theoretical Grounding", 61) >>),
     addresses_weaknesses |-> Str("default rationale", 192)]

\* the try block of synthesize: any exception gives the default
synthesize_parse(response) ==
    LET data == Loads(response) IN
    IF data.t = "obj"
    THEN [method_name |-> GetOr(data, "method_name",
                                Str("Unified Adaptive Framework", 26)),
          core_idea |-> GetOr(data, "core_idea", Str("", 0)),
          components |-> GetOr(data, "components", List(<<>>)),
          addresses_weaknesses |-> GetOr(data, "addresses_weaknesses", Str("", 0))]
    ELSE DefaultMethod

synthesize_path(response) == IF Loads(response).t = "obj" THEN "parsed" ELSE "fallback"

SynthesisBodies ==
    { NotJson,
      List(<<>>),
      Obj([method_name |-> Absent, core_idea |-> Absent, components |-> Absent,
           addresses_weaknesses |-> Absent]),
      Obj([method_name |-> Str("Robust Fusion Network", 21),
           core_idea |-> Str("idea", 120),
           components |-> List(<<Str("c1", 30), Str("c2", 30)>>),
           addresses_weaknesses |-> Str("how", 200)]),
      Obj([method_name |-> Null, core_idea |-> Str("idea", 120),
           components |-> Num, addresses_weaknesses |-> Absent]) }

(***************************************************************************)
(* STEP 6 & 7: ComparativeAnalyzer                                         *)
(***************************************************************************)
aspects ==
    << "Task Scalability", "Theoretical Foundation", "Computational Efficiency",
       "Generalization Capability", "Practical Applicability" >>

Columns == {"paper_a", "paper_b", "proposed"}

NoTable == Absent

\* ', '.join(proposed.components) raises TypeError unless components is iterable
\* and holds strings only
JoinRaises(p) ==
    \/ p.components.t \notin {"list", "str"}
    \/ /\ p.components.t = "list"
       /\ \E i \in DOMAIN p.components.items : p.components.items[i].t # "str"

Assessment(a, b, c) == Obj([paper_a |-> a, paper_b |-> b, proposed |-> c])

\* the except branch of generate_comparison
DefaultAssessment ==
    Assessment(Str("Analysis based on identified limitations shows room for improvement", 67),
               Str("Moderate performance with some documented constraints", 53),
               Str("Designed to address identified gaps through hybrid approach", 59))

\* DefaultTable built from a list of aspects that lost its last entry
DefaultTable_four_aspects ==
    Obj([a \in Range(SubSeq(aspects, 1, 4)) |-> DefaultAssessment])

DefaultTable == Obj([a \in Range(aspects) |-> DefaultAssessment])

\* json.loads succeeds: the decoded value is returned as it is
generate_comparison_parse(response) ==
    LET comparison == Loads(response) IN
    IF comparison.t = "notjson" THEN DefaultTable ELSE comparison

comparison_path(response) ==
    IF Loads(response).t = "notjson" THEN "fallback" ELSE "parsed"

GoodAssessment ==
    Assessment(Str("assessment of A", 70), Str("assessment of B", 64),
               Str("assessment of proposed", 80))

ComparisonBodies ==
    { NotJson,
      List(<<>>),
      Obj([a \in {} |-> Null]),
      Obj([a \in Range(aspects) |-> GoodAssessment]),
      Obj([a \in Range(aspects) \ {"Practical Applicability"} |-> GoodAssessment]),
      Obj([a \in Range(aspects) |->
             IF a = "Task Scalability"
             THEN Obj([paper_a |-> Str("", 0), paper_b |-> Str("assessment of B", 64)])
             ELSE GoodAssessment]) }

(***************************************************************************)
(* SOTAIdentifier._compute_final_ranking                                   *)
(*                                                                         *)
(* Scores are exact fractions held as integers: a sub-score s is held as   *)
(* s * One, the weighted sum f as f * 4 * One, and the rounded fields of   *)
(* the returned record in thousandths (round(x, 3)) or hundredths          *)
(* (round(x, 2)).  One is a multiple of 1000, 500 and 3650.  A prior score *)
(* is given in thousandths.                                                *)
(***************************************************************************)
One == 1000 * 146

NoScore == [t |-> "absent", v |-> 0]
Score(v) == [t |-> "num", v |-> v]

NoCount == [t |-> "absent", v |-> 0]
NullCount == [t |-> "null", v |-> 0]
Count(v) == [t |-> "num", v |-> v]

NoDate == [t |-> "none", day |-> 0]
BadDate == [t |-> "bad", day |-> 0]
Date(day) == [t |-> "date", day |-> day]

\* the nearest integer to n / d for d > 0 and any integer n, a tie going to
\* the even one
RoundDiv(n, d) ==
    LET q == n \div d
        r == n % d
    IN IF 2 * r < d THEN q
       ELSE IF 2 * r > d THEN q + 1
       ELSE IF q % 2 = 0 THEN q ELSE q + 1

CitationCap == 500
HalfYear == 180
OneYear == 365
TwoYears == 730
DecayDays == 3650

\* relevance_score = paper.get('score', 0.5)
relevance_score(p) ==
    IF p.score.t = "absent" THEN One \div 2 ELSE p.score.v * (One \div 1000)

\* citation_score = min(1.0, citation_count / 500) if citation_count else 0
citation_score(p) ==
    IF p.citation_count.t = "num" /\ p.citation_count.v # 0
    THEN Min(One, p.citation_count.v * (One \div CitationCap))
    ELSE 0

\* recency_score of a date one day too generous at the half-year boundary
recency_score_inclusive(p, now) ==
    IF p.published_date.t # "date" THEN One \div 2
    ELSE LET days_old == now - p.published_date.day IN
         IF days_old <= HalfYear THEN One
         ELSE IF days_old < OneYear THEN (One \div 10) * 9
         ELSE IF days_old < TwoYears THEN (One \div 10) * 7
         ELSE Max((One \div 10) * 3, One - days_old * (One \div DecayDays))

\* recency_score: 0.5 unless published_date is set and strptime accepts it
recency_score(p, now) ==
    IF p.published_date.t # "date" THEN One \div 2
    ELSE LET days_old == now - p.published_date.day IN
         IF days_old < HalfYear THEN One
         ELSE IF days_old < OneYear THEN (One \div 10) * 9
         ELSE IF days_old < TwoYears THEN (One \div 10) * 7
         ELSE Max((One \div 10) * 3, One - days_old * (One \div DecayDays))

\* final_score with the weights of relevance and citations exchanged
final_score_swapped(rel, cit, rec) == rel + 2 * cit + rec

\* final_score = relevance * 0.50 + citation * 0.25 + recency * 0.25, times 4
final_score(rel, cit, rec) == 2 * rel + cit + rec

\* the record appended to scored_papers, with the loop's locals beside it
ScoredPaper(p, now) ==
    LET rel == relevance_score(p)
        cit == citation_score(p)
        rec == recency_score(p, now)
        fin == final_score(rel, cit, rec)
    IN [paper_id |-> p.paper_id,
        title |-> p.title,
        published_date |-> p.published_date,
        relevance_score |-> RoundDiv(rel, One \div 1000),
        final_score |-> RoundDiv(fin, 4 * (One \div 1000)),
        metrics |-> [citation_count |-> IF p.citation_count.t = "absent"
                                        THEN Count(0) ELSE p.citation_count,
                     recency_score |-> RoundDiv(rec, One \div 100),
                     citation_score |-> RoundDiv(cit, One \div 100)],
        sota_rank |-> 0,
        locals |-> [relevance_score |-> rel, citation_score |-> cit,
                    recency_score |-> rec, final_score |-> fin]]

ScoredPapers(papers, now) == [i \in DOMAIN papers |-> ScoredPaper(papers[i], now)]

\* InsertByScore that puts x in front of the elements with an equal score
RECURSIVE InsertByScore_unstable(_, _)
InsertByScore_unstable(sorted, x) ==
    IF sorted = <<>> THEN <<x>>
    ELSE IF Head(sorted).final_score > x.final_score
    THEN <<Head(sorted)>> \o InsertByScore_unstable(Tail(sorted), x)
    ELSE <<x>> \o sorted

\* x goes behind every element whose final_score is not smaller
RECURSIVE InsertByScore(_, _)
InsertByScore(sorted, x) ==
    IF sorted = <<>> THEN <<x>>
    ELSE IF Head(sorted).final_score >= x.final_score
    THEN <<Head(sorted)>> \o InsertByScore(Tail(sorted), x)
    ELSE <<x>> \o sorted

\* SortByScore that leaves the list in the order of the argument
SortByScore_unsorted(scored) == scored

\* scored_papers.sort(key=final_score, reverse=True): stable, descending
RECURSIVE SortByScore(_)
SortByScore(scored) ==
    IF scored = <<>> THEN <<>>
    ELSE InsertByScore(SortByScore(SubSeq(scored, 1, Len(scored) - 1)),
                       scored[Len(scored)])

\* ranks for scored_papers[:top_k], which is what is returned (top_k >= 0)
TopK(sorted, top_k) ==
    [i \in 1..Min(top_k, Len(sorted)) |-> [sorted[i] EXCEPT !.sota_rank = i]]

_compute_final_ranking(papers, now, top_k) ==
    TopK(SortByScore(ScoredPapers(papers, now)), top_k)

(***************************************************************************)
(* ResearchPipeline.process under analyze()                                *)
(***************************************************************************)
RawLens == {0, 2500}

NoReply == [status |-> 0]
EmptyDict == [k \in {} |-> Absent]

ResultKeys ==
    {"paper_a", "paper_b", "weaknesses_a", "weaknesses_b", "weakness_analysis",
     "proposed_method", "comparison_table"}

RankIdle ==
    /\ rk_pc = "idle"
    /\ rk_now = 0
    /\ rk_papers = <<>>
    /\ rk_top_k = 0
    /\ rk_scored = <<>>
    /\ rk_out = <<>>

NoArgs == [top_k |-> 0]
NoResult == [total_found |-> 0, top_k |-> 0, sota_papers |-> <<>>]

SotaIdle ==
    /\ st_pc = "idle"
    /\ st_args = NoArgs
    /\ st_feed = <<>>
    /\ arxiv_results = <<>>
    /\ ranked_papers = <<>>
    /\ result = NoResult

TextIdle ==
    /\ tx_pc = "idle"
    /\ tx_response = <<>>
    /\ tx_weaknesses = <<>>
    /\ nz_pc = "idle"
    /\ nz_normalized = <<>>
    /\ js_pc = "idle"
    /\ js_object = <<>>
    /\ js_out = <<>>

KeywordIdle ==
    /\ kw_pc = "idle"
    /\ kw_query = <<>>
    /\ kw_papers = <<>>
    /\ kw_out = <<>>

JsonStages == {<<"parse", "A">>, <<"parse", "B">>, <<"fuse", "-">>,
               <<"synthesize", "-">>, <<"compare", "-">>}

Init ==
    /\ text \in [Docs -> RawLens]
    /\ pc = <<"parse", "A">>
    /\ sec = 1
    /\ paper = [d \in Docs |-> NoPaper]
    /\ raw = [d \in Docs |-> <<>>]
    /\ norm = [d \in Docs |-> <<>>]
    /\ analysis = NoAnalysis
    /\ proposed = NoMethod
    /\ results = EmptyDict
    /\ reply = NoReply
    /\ calls = 0
    /\ gen_failed = FALSE
    /\ path = [s \in JsonStages |-> "none"]
    /\ RankIdle
    /\ SotaIdle
    /\ TextIdle
    /\ KeywordIdle

\* After with step 2 left out: normalizing follows parsing
After_without_extract(stage, d) ==
    IF d = "A" THEN <<stage, "B">>
    ELSE CASE stage = "parse" -> <<"normalize", "A">>
           [] stage = "extract" -> <<"normalize", "A">>
           [] stage = "normalize" -> <<"fuse", "-">>

\* the statement process runs after stage `stage` has returned for document d
After(stage, d) ==
    IF d = "A" THEN <<stage, "B">>
    ELSE CASE stage = "parse" -> <<"extract", "A">>
           [] stage = "extract" -> <<"normalize", "A">>
           [] stage = "normalize" -> <<"fuse", "-">>

\* An exception leaves process (which has no handler) and reaches the except
\* clause of analyze: a body holding the message only, status 500.
Raise(error) ==
    /\ pc' = <<"done", "-">>
    /\ reply' = [status |-> 500, body |-> [error |-> error]]

\* GenerationFails with the error swallowed and the stage left to call again
GenerationRetried(e) ==
    /\ calls' = calls + 1
    /\ gen_failed' = TRUE
    /\ UNCHANGED <<pc, reply>>

\* chat_completion raises: the call was issued, nothing is retried
GenerationFails(e) ==
    /\ calls' = calls + 1
    /\ gen_failed' = TRUE
    /\ Raise(e)

\* parse_pdf called by process for document d, the service answering with
\* one of `responses`
ParsePdfOn(d, responses) ==
    /\ pc = <<"parse", d>>
    /\ \/ /\ \E e \in HttpFailures : GenerationFails(e)
          /\ UNCHANGED <<paper, path, results>>
       \/ \E response \in responses :
            LET out == parse_pdf(text[d], response, d) IN
            /\ calls' = calls + 1
            /\ path' = [path EXCEPT ![<<"parse", d>>] = out.path]
            /\ IF out.exc # "none"
               THEN Raise(out.exc) /\ UNCHANGED <<paper, results>>
               ELSE /\ paper' = [paper EXCEPT ![d] = out.paper]
                    /\ pc' = After("parse", d)
                    /\ results' =
                         IF d = "B"
                         THEN results @@ ("paper_a" :> paper'["A"])
                                      @@ ("paper_b" :> paper'["B"])
                         ELSE results
                    /\ UNCHANGED reply
            /\ UNCHANGED gen_failed
    /\ UNCHANGED <<text, sec, raw, norm, analysis, proposed>>
    /\ UNCHANGED <<rankVars, sotaVars, textVars>>

ParsePdf(d) == ParsePdfOn(d, ParseResponses)

\* one iteration of the loop over sections, for a section that is analysed
MineSection(d) ==
    /\ pc = <<"extract", d>>
    /\ sec \in DOMAIN Sections
    /\ Mined(paper[d][Sections[sec]])
    /\ \/ /\ \E e \in HttpFailures : GenerationFails(e)
          /\ UNCHANGED <<raw, sec>>
       \/ \E response \in MinerResponses :
            /\ calls' = calls + 1
            /\ raw' = [raw EXCEPT ![d] = @ \o _extract_from_section(response)]
            /\ sec' = sec + 1
            /\ UNCHANGED <<pc, reply, gen_failed>>
    /\ UNCHANGED <<text, paper, norm, analysis, proposed, results, path>>
    /\ UNCHANGED <<rankVars, sotaVars, textVars>>

\* one iteration for a section that is empty or too short
SkipSection(d) ==
    /\ pc = <<"extract", d>>
    /\ sec \in DOMAIN Sections
    /\ ~Mined(paper[d][Sections[sec]])
    /\ sec' = sec + 1
    /\ UNCHANGED <<text, pc, paper, raw, norm, analysis, proposed, results,
                   reply, calls, gen_failed, path>>
    /\ UNCHANGED <<rankVars, sotaVars, textVars>>

\* Forced without the test of the list
Forced_whatever_was_found(d) == Truthy(paper[d].abstract)

\* if not all_weaknesses and paper.abstract
Forced(d) == raw[d] = <<>> /\ Truthy(paper[d].abstract)

ForcedPass(d) ==
    /\ pc = <<"extract", d>>
    /\ sec = Len(Sections) + 1
    /\ Forced(d)
    /\ \/ /\ \E e \in HttpFailures : GenerationFails(e)
          /\ UNCHANGED <<raw, sec>>
       \/ \E response \in MinerResponses :
            /\ calls' = calls + 1
            /\ raw' = [raw EXCEPT ![d] = @ \o _extract_from_section(response)]
            /\ pc' = After("extract", d)
            /\ sec' = 1
            /\ UNCHANGED <<reply, gen_failed>>
    /\ UNCHANGED <<text, paper, norm, analysis, proposed, results, path>>
    /\ UNCHANGED <<rankVars, sotaVars, textVars>>

ExtractReturn(d) ==
    /\ pc = <<"extract", d>>
    /\ sec = Len(Sections) + 1
    /\ ~Forced(d)
    /\ pc' = After("extract", d)
    /\ sec' = 1
    /\ UNCHANGED <<text, paper, raw, norm, analysis, proposed, results, reply,
                   calls, gen_failed, path>>
    /\ UNCHANGED <<rankVars, sotaVars, textVars>>

\* results['weaknesses_a'] and ['weaknesses_b'] are set once both are normalized
WithWeaknesses(d, normalized) ==
    IF d = "B"
    THEN results @@ ("weaknesses_a" :> List(normalized["A"]))
                 @@ ("weaknesses_b" :> List(normalized["B"]))
    ELSE results

\* NormalizeEmpty that asks the service about the empty list all the same
NormalizeEmpty_calls(d) ==
    /\ pc = <<"normalize", d>>
    /\ raw[d] = <<>>
    /\ norm' = [norm EXCEPT ![d] = <<>>]
    /\ pc' = After("normalize", d)
    /\ results' = WithWeaknesses(d, norm')
    /\ calls' = calls + 1
    /\ UNCHANGED <<text, sec, paper, raw, analysis, proposed, reply,
                   gen_failed, path>>
    /\ UNCHANGED <<rankVars, sotaVars, textVars>>

\* if not weaknesses: return []
NormalizeEmpty(d) ==
    /\ pc = <<"normalize", d>>
    /\ raw[d] = <<>>
    /\ norm' = [norm EXCEPT ![d] = <<>>]
    /\ pc' = After("normalize", d)
    /\ results' = WithWeaknesses(d, norm')
    /\ UNCHANGED <<text, sec, paper, raw, analysis, proposed, reply, calls,
                   gen_failed, path>>
    /\ UNCHANGED <<rankVars, sotaVars, textVars>>

Normalize(d) ==
    /\ pc = <<"normalize", d>>
    /\ raw[d] # <<>>
    /\ \/ /\ \E e \in HttpFailures : GenerationFails(e)
          /\ UNCHANGED <<norm, results>>
       \/ \E response \in NormalizerResponses :
            /\ calls' = calls + 1
            /\ norm' = [norm EXCEPT ![d] = normalize_parse(response)]
            /\ pc' = After("normalize", d)
            /\ results' = WithWeaknesses(d, norm')
            /\ UNCHANGED <<reply, gen_failed>>
    /\ UNCHANGED <<text, sec, paper, raw, analysis, proposed, path>>
    /\ UNCHANGED <<rankVars, sotaVars, textVars>>

Fuse ==
    /\ pc = <<"fuse", "-">>
    /\ \/ /\ \E e \in HttpFailures : GenerationFails(e)
          /\ UNCHANGED <<analysis, results, path>>
       \/ \E response \in Wrappings(FusionBodies(norm["A"], norm["B"])) :
          \E an \in fusion_analyze(response, norm["A"], norm["B"]) :
            /\ calls' = calls + 1
            /\ analysis' = an
            /\ path' = [path EXCEPT ![<<"fuse", "-">>] = fusion_path(response)]
            /\ results' = results @@ ("weakness_analysis" :> an)
            /\ pc' = <<"synthesize", "-">>
            /\ UNCHANGED <<reply, gen_failed>>
    /\ UNCHANGED <<text, sec, paper, raw, norm, proposed>>
    /\ UNCHANGED <<rankVars, sotaVars, textVars>>

\* the concatenation at the top of synthesize raises before any call
SynthesizeRaises ==
    /\ pc = <<"synthesize", "-">>
    /\ ConcatRaises(analysis)
    /\ Raise("TypeError")
    /\ UNCHANGED <<text, sec, paper, raw, norm, analysis, proposed, results,
                   calls, gen_failed, path>>
    /\ UNCHANGED <<rankVars, sotaVars, textVars>>

Synthesize ==
    /\ pc = <<"synthesize", "-">>
    /\ ~ConcatRaises(analysis)
    /\ \/ /\ \E e \in HttpFailures : GenerationFails(e)
          /\ UNCHANGED <<proposed, results, path>>
       \/ \E response \in Wrappings(SynthesisBodies) :
            /\ calls' = calls + 1
            /\ proposed' = synthesize_parse(response)
            /\ path' = [path EXCEPT ![<<"synthesize", "-">>] =
                                      synthesize_path(response)]
            /\ results' = results @@ ("proposed_method" :> proposed')
            /\ pc' = <<"compare", "-">>
            /\ UNCHANGED <<reply, gen_failed>>
    /\ UNCHANGED <<text, sec, paper, raw, norm, analysis>>
    /\ UNCHANGED <<rankVars, sotaVars, textVars>>

\* building the prompt of generate_comparison raises before any call
CompareRaises ==
    /\ pc = <<"compare", "-">>
    /\ JoinRaises(proposed)
    /\ Raise("TypeError")
    /\ UNCHANGED <<text, sec, paper, raw, norm, analysis, proposed, results,
                   calls, gen_failed, path>>
    /\ UNCHANGED <<rankVars, sotaVars, textVars>>

\* the last stage: process returns results and analyze sends them
Compare ==
    /\ pc = <<"compare", "-">>
    /\ ~JoinRaises(proposed)
    /\ \/ /\ \E e \in HttpFailures : GenerationFails(e)
          /\ UNCHANGED <<results, path>>
       \/ \E response \in Wrappings(ComparisonBodies) :
            /\ calls' = calls + 1
            /\ path' = [path EXCEPT ![<<"compare", "-">>] =
                                      comparison_path(response)]
            /\ results' = results @@ ("comparison_table" :>
                                        generate_comparison_parse(response))
            /\ pc' = <<"done", "-">>
            /\ reply' = [status |-> 200, body |-> results']
            /\ UNCHANGED gen_failed
    /\ UNCHANGED <<text, sec, paper, raw, norm, analysis, proposed>>
    /\ UNCHANGED <<rankVars, sotaVars, textVars>>

Next ==
    \/ \E d \in Docs : ParsePdf(d)
    \/ \E d \in Docs : MineSection(d)
    \/ \E d \in Docs : SkipSection(d)
    \/ \E d \in Docs : ForcedPass(d)
    \/ \E d \in Docs : ExtractReturn(d)
    \/ \E d \in Docs : NormalizeEmpty(d)
    \/ \E d \in Docs : Normalize(d)
    \/ Fuse
    \/ SynthesizeRaises
    \/ Synthesize
    \/ CompareRaises
    \/ Compare

Spec == Init /\ [][Next]_vars

(***************************************************************************)
(* Properties of the synthesis pipeline                                    *)
(***************************************************************************)
Done == pc = <<"done", "-">>

\* membership of a string in a partition of the analysis
InPart(part, w) == part.t = "list" /\ w \in Range(part.items)

Inputs == Range(norm["A"]) \cup Range(norm["B"])

\* C1: when the fusion response does not parse, the three partitions returned
\* are shared = A \cap B, paper_a_only = A \ B, paper_b_only = B \ A by exact
\* string comparison, pairwise disjoint, and together they hold A \cup B.
C1_FallbackPartition ==
    path[<<"fuse", "-">>] = "fallback" =>
        /\ \A k \in {"shared", "paper_a_only", "paper_b_only"} :
             analysis[k].t = "list"
        /\ \A w \in Inputs :
             /\ InPart(analysis.shared, w) <=>
                  (w \in Range(norm["A"]) /\ w \in Range(norm["B"]))
             /\ InPart(analysis.paper_a_only, w) <=>
                  (w \in Range(norm["A"]) /\ w \notin Range(norm["B"]))
             /\ InPart(analysis.paper_b_only, w) <=>
                  (w \in Range(norm["B"]) /\ w \notin Range(norm["A"]))
        /\ Range(analysis.shared.items) \cap Range(analysis.paper_a_only.items) = {}
        /\ Range(analysis.shared.items) \cap Range(analysis.paper_b_only.items) = {}
        /\ Range(analysis.paper_a_only.items)
             \cap Range(analysis.paper_b_only.items) = {}
        /\ Range(analysis.shared.items) \cup Range(analysis.paper_a_only.items)
             \cup Range(analysis.paper_b_only.items) = Inputs

\* the fallback ran on two lists that overlap without being equal
C1_Witness ==
    /\ path[<<"fuse", "-">>] = "fallback"
    /\ analysis.shared.items # <<>>
    /\ analysis.paper_a_only.items # <<>>
    /\ analysis.paper_b_only.items # <<>>

\* C2: when the fusion response parses, every string of the two normalized
\* lists is in exactly one of shared, paper_a_only, paper_b_only.
C2_ParsedPartition ==
    path[<<"fuse", "-">>] = "parsed" =>
        \A w \in Inputs :
            Cardinality({ k \in {"shared", "paper_a_only", "paper_b_only"} :
                            InPart(analysis[k], w) }) = 1

\* C3: when no generation call fails, process returns a result with all seven
\* keys whatever the texts were; no parse failure reaches the caller.
C3_ParseFailuresRecovered ==
    (Done /\ ~gen_failed) =>
        /\ reply.status = 200
        /\ DOMAIN reply.body = ResultKeys

\* C4: a failed generation call is not retried and ends the invocation: once a
\* call has failed no further call is issued, and the caller gets status 500
\* with a body that holds the error message and nothing of the results.
C4_GenerationErrorFatal ==
    /\ [](gen_failed =>
            /\ Done
            /\ reply.status = 500
            /\ DOMAIN reply.body = {"error"})
    /\ [][gen_failed => calls' = calls]_vars

\* a call failed after results had been partly filled
C4_Witness ==
    /\ gen_failed
    /\ calls > 4
    /\ "weakness_analysis" \in DOMAIN results

FixedAspects ==
    {"Task Scalability", "Theoretical Foundation", "Computational Efficiency",
     "Generalization Capability", "Practical Applicability"}

NonEmptyText(v) == v.t = "str" /\ v.len > 0

IsFullTable(tab) ==
    /\ tab.t = "obj"
    /\ DOMAIN tab.f = FixedAspects
    /\ \A a \in FixedAspects :
         /\ tab.f[a].t = "obj"
         /\ {"paper_a", "paper_b", "proposed"} \subseteq DOMAIN tab.f[a].f
         /\ \A c \in {"paper_a", "paper_b", "proposed"} :
              NonEmptyText(tab.f[a].f[c])

\* C5: every result process returns has a comparison_table with exactly the
\* five fixed aspects, each with non-empty paper_a, paper_b and proposed.
C5_TableShape ==
    reply.status = 200 => IsFullTable(reply.body["comparison_table"])

\* C6: when the comparison response does not parse, the table returned has
\* exactly the five fixed aspects, each with non-empty placeholder text in
\* all three columns.
C6_FallbackTable ==
    path[<<"compare", "-">>] = "fallback" =>
        /\ "comparison_table" \in DOMAIN results
        /\ IsFullTable(results["comparison_table"])

\* the comparison fell back and the result was returned
C6_Witness ==
    /\ path[<<"compare", "-">>] = "fallback"
    /\ reply.status = 200
    /\ path[<<"synthesize", "-">>] = "fallback"

(***************************************************************************)
(* SpecRank: _compute_final_ranking on every list of at most MaxPapers     *)
(* candidates and every top_k up to MaxTopK                                *)
(***************************************************************************)
MaxPapers == 3
MaxTopK == 3

Nows == {20000}

\* [score, citation_count, age in days or a missing / malformed date]
Attr(score, count, date) ==
    [score |-> score, citation_count |-> count, published_date |-> date]

Aged(now, days) == Date(now - days)

\* No candidate's weighted sum lies exactly between two thousandths: there
\* round() follows the binary value of the float, not the decimal fraction.
CandidateAttrs(now) ==
    { Attr(Score(900), Count(500), Aged(now, 179)),
      Attr(Score(900), Count(700), Aged(now, 180)),
      Attr(Score(333), Count(1), Aged(now, 200)),
      Attr(Score(334), NullCount, Aged(now, 364)),
      Attr(Score(1000), Count(250), Aged(now, 365)),
      Attr(Score(0), Count(4), Aged(now, 729)),
      Attr(Score(500), Count(10), Aged(now, 730)),
      Attr(Score(500), Count(10), Aged(now, 1000)),
      Attr(Score(700), NoCount, Aged(now, 2555)),
      Attr(Score(700), Count(2), Aged(now, 4000)),
      Attr(NoScore, NoCount, NoDate),
      Attr(Score(500), Count(0), BadDate) }

\* the i-th paper of a list: the attributes, its own id and a title
Candidate(a, i) ==
    [paper_id |-> i, title |-> Str("title", 40), score |-> a.score,
     citation_count |-> a.citation_count, published_date |-> a.published_date]

SynthIdle ==
    /\ text = [d \in Docs |-> 0]
    /\ pc = <<"idle", "-">>
    /\ sec = 1
    /\ paper = [d \in Docs |-> NoPaper]
    /\ raw = [d \in Docs |-> <<>>]
    /\ norm = [d \in Docs |-> <<>>]
    /\ analysis = NoAnalysis
    /\ proposed = NoMethod
    /\ results = EmptyDict
    /\ reply = NoReply
    /\ calls = 0
    /\ gen_failed = FALSE
    /\ path = [s \in JsonStages |-> "none"]

RankInit ==
    /\ SynthIdle
    /\ SotaIdle
    /\ TextIdle
    /\ KeywordIdle
    /\ rk_pc = "call"
    /\ rk_now \in Nows
    /\ \E n \in 0..MaxPapers :
         \E attrs \in [1..n -> CandidateAttrs(rk_now)] :
            rk_papers = [i \in 1..n |-> Candidate(attrs[i], i)]
    /\ rk_top_k \in 0..MaxTopK
    /\ rk_scored = <<>>
    /\ rk_out = <<>>

ComputeFinalRanking ==
    /\ rk_pc = "call"
    /\ rk_scored' = ScoredPapers(rk_papers, rk_now)
    /\ rk_out' = _compute_final_ranking(rk_papers, rk_now, rk_top_k)
    /\ rk_pc' = "returned"
    /\ UNCHANGED <<rk_now, rk_papers, rk_top_k>>
    /\ UNCHANGED <<synthVars, sotaVars, textVars>>

RankNext == ComputeFinalRanking

SpecRank == RankInit /\ [][RankNext]_vars

(***************************************************************************)
(* Properties of _compute_final_ranking (checked under SpecRank)           *)
(***************************************************************************)
Returned == rk_pc = "returned"

\* C7: the returned sequence has min(top_k, number of candidates) records,
\* the record at position i carries sota_rank i (so the ranks are 1, 2, ...,
\* n without a gap or a duplicate), and final_score never increases from
\* one record to the next.
C7_DenseRanksSortedScores ==
    Returned =>
      /\ Len(rk_out) = Min(rk_top_k, Len(rk_papers))
      /\ \A i \in DOMAIN rk_out : rk_out[i].sota_rank = i
      /\ \A i \in DOMAIN rk_out : \A j \in DOMAIN rk_out :
            i < j => rk_out[i].final_score >= rk_out[j].final_score

\* three candidates arriving worst first, two of them returned
C7_Witness ==
    /\ Returned
    /\ Len(rk_papers) = 3
    /\ rk_top_k = 2
    /\ rk_scored[1].final_score < rk_scored[2].final_score
    /\ rk_scored[2].final_score < rk_scored[3].final_score
    /\ Len(rk_out) = 2
    /\ rk_out[1].paper_id = 3
    /\ rk_out[2].paper_id = 2

\* the input positions of the records returned (paper_id is the position)
ReturnedIds == {rk_out[i].paper_id : i \in DOMAIN rk_out}

\* C11: the sort is stable and only the head of the sorted sequence is
\* ranked and returned: of two returned records the earlier has the larger
\* final_score or, at equal final_score, came earlier in the input; every
\* candidate left out would sort behind every returned one; min(top_k, n)
\* records come back, each candidate at most once, each with its rank.
C11_StableSortTopK ==
    Returned =>
      /\ Len(rk_out) = Min(rk_top_k, Len(rk_papers))
      /\ Cardinality(ReturnedIds) = Len(rk_out)
      /\ ReturnedIds \subseteq 1..Len(rk_papers)
      /\ \A i \in DOMAIN rk_out :
           /\ rk_out[i].sota_rank = i
           /\ rk_out[i].final_score = rk_scored[rk_out[i].paper_id].final_score
      /\ \A i \in DOMAIN rk_out : \A j \in DOMAIN rk_out :
           i < j =>
             \/ rk_out[i].final_score > rk_out[j].final_score
             \/ /\ rk_out[i].final_score = rk_out[j].final_score
                /\ rk_out[i].paper_id < rk_out[j].paper_id
      /\ \A q \in (1..Len(rk_papers)) \ ReturnedIds : \A i \in DOMAIN rk_out :
             \/ rk_out[i].final_score > rk_scored[q].final_score
             \/ /\ rk_out[i].final_score = rk_scored[q].final_score
                /\ rk_out[i].paper_id < q

\* three candidates with the same final score, the first two returned in
\* input order
C11_Witness ==
    /\ Returned
    /\ Len(rk_papers) = 3
    /\ rk_top_k = 2
    /\ rk_papers[1] # [rk_papers[2] EXCEPT !.paper_id = 1]
    /\ rk_scored[1].final_score = rk_scored[2].final_score
    /\ rk_scored[2].final_score = rk_scored[3].final_score
    /\ Len(rk_out) = 2
    /\ rk_out[1].paper_id = 1
    /\ rk_out[2].paper_id = 2

\* the sub-scores the claim names, from the candidate alone
ExpectedRelevance(p) ==
    IF p.score.t = "absent" THEN One \div 2 ELSE (p.score.v * One) \div 1000

ExpectedCitation(p) ==
    IF p.citation_count.t = "num" /\ p.citation_count.v # 0
    THEN IF p.citation_count.v >= CitationCap THEN One
         ELSE (p.citation_count.v * One) \div CitationCap
    ELSE 0

\* C9: for every candidate the final score computed is
\* 0.50 * relevance + 0.25 * citation + 0.25 * recency of its own sub-scores
\* (held here times four), relevance being the prior score or 0.5 without
\* one and citation being min(1, count / 500) or 0 for a missing, null or
\* zero count; the record reports that value rounded to three decimals; and
\* two candidates with the same three sub-scores have the same final score.
C9_WeightedSum ==
    Returned =>
      /\ \A i \in DOMAIN rk_scored :
           LET s == rk_scored[i].locals IN
           /\ s.relevance_score = ExpectedRelevance(rk_papers[i])
           /\ s.citation_score = ExpectedCitation(rk_papers[i])
           /\ 2 * s.final_score =
                 4 * s.relevance_score + 2 * s.citation_score
                   + 2 * s.recency_score
           /\ 2 * (rk_scored[i].final_score * 4 * (One \div 1000)
                     - s.final_score) <= 4 * (One \div 1000)
           /\ 2 * (s.final_score
                     - rk_scored[i].final_score * 4 * (One \div 1000))
                 <= 4 * (One \div 1000)
      /\ \A i \in DOMAIN rk_scored : \A j \in DOMAIN rk_scored :
           LET s == rk_scored[i].locals
               u == rk_scored[j].locals IN
           (/\ s.relevance_score = u.relevance_score
            /\ s.citation_score = u.citation_score
            /\ s.recency_score = u.recency_score)
           => /\ s.final_score = u.final_score
              /\ rk_scored[i].final_score = rk_scored[j].final_score

\* a candidate without a prior score and without a count, one whose count is
\* above the cap, and one whose three weights all matter
C9_Witness ==
    /\ Returned
    /\ Len(rk_papers) = 3
    /\ rk_papers[1].score.t = "absent"
    /\ rk_papers[1].citation_count.t = "absent"
    /\ rk_scored[1].final_score = 375
    /\ rk_papers[2].citation_count.v = 700
    /\ rk_scored[2].locals.citation_score = One
    /\ rk_papers[3].score.v = 1000
    /\ rk_papers[3].citation_count.v = 250
    /\ rk_scored[3].final_score = 800

DaysOld(p) == rk_now - p.published_date.day

\* C10: a candidate whose date parses and is d days old gets recency 1.0 for
\* d < 180, 0.9 for 180 <= d < 365, 0.7 for 365 <= d < 730 and
\* max(0.3, 1 - d/3650) from 730 days on; a missing or unparseable date gives
\* 0.5.  (metrics.recency_score reports the value rounded to two decimals.)
C10_RecencyBands ==
    Returned =>
      \A i \in DOMAIN rk_scored :
        LET p == rk_papers[i]
            rec == rk_scored[i].locals.recency_score
            d == DaysOld(p) IN
        /\ p.published_date.t # "date" => 2 * rec = One
        /\ p.published_date.t = "date" =>
             /\ d < 180 => rec = One
             /\ (180 <= d /\ d < 365) => 10 * rec = 9 * One
             /\ (365 <= d /\ d < 730) => 10 * rec = 7 * One
             /\ d >= 730 =>
                  3650 * rec = Max(3 * 365 * One, (3650 - d) * One)
        /\ 2 * (rk_scored[i].metrics.recency_score * (One \div 100) - rec)
              <= One \div 100
        /\ 2 * (rec - rk_scored[i].metrics.recency_score * (One \div 100))
              <= One \div 100

\* a paper 179 days old beside one 200 days old and one without a date
C10_Witness ==
    /\ Returned
    /\ Len(rk_papers) = 3
    /\ rk_papers[1].published_date.t = "date" /\ DaysOld(rk_papers[1]) = 179
    /\ rk_scored[1].metrics.recency_score = 100
    /\ rk_papers[2].published_date.t = "date" /\ DaysOld(rk_papers[2]) = 200
    /\ rk_scored[2].metrics.recency_score = 90
    /\ rk_papers[3].published_date.t = "none"
    /\ rk_scored[3].metrics.recency_score = 50

\* C29: of two candidates whose dates parse, the older one never has the
\* higher recency score, and every recency score of a parsed date lies
\* between 0.3 and 1.0.
C29_RecencyMonotone ==
    Returned =>
      \A i, j \in DOMAIN rk_scored :
        (/\ rk_papers[i].published_date.t = "date"
         /\ rk_papers[j].published_date.t = "date") =>
          /\ DaysOld(rk_papers[i]) > DaysOld(rk_papers[j]) =>
               rk_scored[i].locals.recency_score
                 <= rk_scored[j].locals.recency_score
          /\ 10 * rk_scored[i].locals.recency_score >= 3 * One
          /\ rk_scored[i].locals.recency_score <= One

(***************************************************************************)
(* SOTAIdentifier.identify_sota                                            *)
(***************************************************************************)
\* the longest feed arXiv answers with (max_results of the request)
MaxEntries == 3

\* One <entry> of the feed and what the other services hold for it: the
\* id and title elements ("text", "missing" or "empty", an element without
\* text), the published date, the keyword score its title and abstract
\* earn, the score and the explanation the language model gives it, and
\* the citation count Semantic Scholar knows (NoCount: paper not found).
Entry(id, title, published, kw, llm, s2, why) ==
    [id |-> id, title |-> title, published |-> published, kw |-> kw,
     llm |-> llm, s2 |-> s2, why |-> why]

NoEntry == [t |-> "none"]

\* a score that is JSON but not a number
JunkScore == [t |-> "null", v |-> 0]

\* the dict _parse_entry builds for the i-th entry
PaperOf(e, i, title) ==
    [t |-> "paper",
     paper_id |-> Str(<<"arXiv:", i>>, 16),
     arxiv_id |-> Str(<<"", i>>, 10),
     title |-> title,
     published_date |-> e.published,
     score |-> NoScore,
     citation_count |-> NoCount,
     env |-> [kw |-> e.kw, llm |-> e.llm, s2 |-> e.s2, why |-> e.why]]

\* _parse_entry that passes an entry with an empty title element on
_parse_entry_keeps_untitled(e, i) ==
    IF e.id # "text" THEN NoEntry
    ELSE PaperOf(e, i, CASE e.title = "text" -> Str(<<"title", i>>, 40)
                         [] e.title = "missing" -> Str(<<"Unknown", 0>>, 7)
                         [] OTHER -> Null)

\* ArxivWrapper._parse_entry: None without an id element, None as well when
\* .text of the id or of the title is None (the AttributeError is caught),
\* "Unknown" for a missing title element
_parse_entry(e, i) ==
    IF e.id = "missing" THEN NoEntry
    ELSE IF e.id = "empty" \/ e.title = "empty" THEN NoEntry
    ELSE PaperOf(e, i, IF e.title = "missing" THEN Str(<<"Unknown", 0>>, 7)
                       ELSE Str(<<"title", i>>, 40))

\* ArxivWrapper._parse_response: the entries _parse_entry accepted, in order
_parse_response(feed) ==
    SelectSeq([i \in 1..Len(feed) |-> _parse_entry(feed[i], i)],
              LAMBDA p : p.t # "none")

\* PassesDates with a window that is open at both ends
PassesDates_exclusive(p, start_date, end_date) ==
    IF p.published_date.t = "none" THEN FALSE
    ELSE IF p.published_date.t = "bad" THEN TRUE
    ELSE IF start_date.t = "bad" THEN TRUE
    ELSE IF start_date.t = "date" /\ p.published_date.day <= start_date.day
    THEN FALSE
    ELSE IF end_date.t = "bad" THEN TRUE
    ELSE IF end_date.t = "date" /\ p.published_date.day >= end_date.day
    THEN FALSE
    ELSE TRUE

\* the body of the loop of _filter_by_date: TRUE when the paper is appended
PassesDates(p, start_date, end_date) ==
    IF p.published_date.t = "none" THEN FALSE
    ELSE IF p.published_date.t = "bad" THEN TRUE
    ELSE IF start_date.t = "bad" THEN TRUE
    ELSE IF start_date.t = "date" /\ p.published_date.day < start_date.day
    THEN FALSE
    ELSE IF end_date.t = "bad" THEN TRUE
    ELSE IF end_date.t = "date" /\ p.published_date.day > end_date.day
    THEN FALSE
    ELSE TRUE

_filter_by_date(papers, start_date, end_date) ==
    SelectSeq(papers, LAMBDA p : PassesDates(p, start_date, end_date))

FetchOutcomes == {"ok", "request_error", "bad_xml"}

\* ArxivWrapper.search
search(feed, start_date, end_date, outcome) ==
    IF outcome = "request_error" THEN <<>>
    ELSE LET papers == IF outcome = "bad_xml" THEN <<>>
                       ELSE _parse_response(feed)
         IN IF start_date.t # "none" \/ end_date.t # "none"
            THEN _filter_by_date(papers, start_date, end_date)
            ELSE papers

\* SemanticEngine._keyword_score_papers
_keyword_score_papers(papers) ==
    [i \in 1..Len(papers) |->
       [papers[i] EXCEPT !.score = Score(papers[i].env.kw)]]

DefaultLlmScore == 500

\* _llm_score_papers once json.loads gave a list of n scores: the first n
\* papers take theirs, whatever it is, the others 0.5
_llm_score_papers(papers, n) ==
    [i \in 1..Len(papers) |->
       [papers[i] EXCEPT !.score = IF i <= n THEN papers[i].env.llm
                                  ELSE Score(DefaultLlmScore)]]

\* what the scoring request can come to: no call without a key; with one,
\* an HTTP failure, a reply that is not JSON, JSON without a length, or a
\* list of n scores
LlmReplies(api_key, len) ==
    IF ~api_key THEN {[kind |-> "no_key", n |-> 0]}
    ELSE {[kind |-> k, n |-> 0] : k \in {"failed", "not_json", "not_list"}}
         \cup {[kind |-> "scores", n |-> n] : n \in {1, len}}

\* SemanticEngine._score_papers: every failure ends in the keyword scores
_score_papers(papers, llm) ==
    IF llm.kind = "scores" THEN _llm_score_papers(papers, llm.n)
    ELSE _keyword_score_papers(papers)

HasJunkScore(papers) == \E i \in 1..Len(papers) : papers[i].score.t # "num"

\* x goes behind every element whose score is not smaller
RECURSIVE InsertByRelevance(_, _)
InsertByRelevance(sorted, x) ==
    IF sorted = <<>> THEN <<x>>
    ELSE IF Head(sorted).score.v >= x.score.v
    THEN <<Head(sorted)>> \o InsertByRelevance(Tail(sorted), x)
    ELSE <<x>> \o sorted

\* scored.sort(key=score, reverse=True)
RECURSIVE SortByRelevance(_)
SortByRelevance(scored) ==
    IF scored = <<>> THEN <<>>
    ELSE InsertByRelevance(SortByRelevance(SubSeq(scored, 1, Len(scored) - 1)),
                           scored[Len(scored)])

\* SemanticEngine.rank_papers; exc: the sort compared a score that is not a
\* number (TypeError)
rank_papers(papers, top_k, llm) ==
    IF papers = <<>> THEN [exc |-> FALSE, papers |-> <<>>]
    ELSE LET scored == _score_papers(papers, llm) IN
         IF Len(papers) <= top_k THEN [exc |-> FALSE, papers |-> scored]
         ELSE IF Len(scored) >= 2 /\ HasJunkScore(scored)
         THEN [exc |-> TRUE, papers |-> <<>>]
         ELSE [exc |-> FALSE,
               papers |-> SubSeq(SortByRelevance(scored), 1, top_k)]

\* enrich_papers that writes a count of zero where the lookup found nothing
enrich_papers_zero_on_miss(papers) ==
    [i \in 1..Len(papers) |->
       IF papers[i].env.s2.t = "absent"
       THEN [papers[i] EXCEPT !.citation_count = Count(0)]
       ELSE [papers[i] EXCEPT !.citation_count = papers[i].env.s2]]

\* SemanticScholarWrapper.enrich_papers: metrics found update the paper
enrich_papers(papers) ==
    [i \in 1..Len(papers) |->
       IF papers[i].env.s2.t = "absent" THEN papers[i]
       ELSE [papers[i] EXCEPT !.citation_count = papers[i].env.s2]]

\* SemanticEngine.compute_relevance_explanation
compute_relevance_explanation(api_key, why) ==
    IF ~api_key THEN Str("matches search criteria", 68)
    ELSE IF why = "generated" THEN Str("generated", 120)
    ELSE Str("semantic similarity", 58)

\* step 5 of identify_sota: every returned record gets its relevance_reason
Explained(final_papers, ranked, api_key) ==
    [i \in 1..Len(final_papers) |->
       LET src == CHOOSE j \in 1..Len(ranked) :
                     ranked[j].paper_id = final_papers[i].paper_id
       IN [relevance_reason |->
             compute_relevance_explanation(api_key, ranked[src].env.why)]
          @@ final_papers[i]]

\* the entries a feed is made of
EntryKinds(now) ==
    { Entry("text", "text", Aged(now, 100), 800, Score(900), Count(700),
            "generated"),
      Entry("text", "missing", Aged(now, 250), 100, Score(300), NoCount,
            "failed"),
      Entry("missing", "text", Aged(now, 100), 800, Score(900), Count(700),
            "generated"),
      Entry("text", "empty", Aged(now, 100), 800, Score(900), Count(700),
            "generated"),
      Entry("text", "text", NoDate, 450, JunkScore, NullCount, "generated"),
      Entry("text", "text", BadDate, 1000, Score(1500), Count(10),
            "failed") }

\* <<start_date, end_date>>
DateRanges(now) ==
    { <<NoDate, NoDate>>, <<Aged(now, 100), NoDate>>,
      <<NoDate, Aged(now, 250)>>, <<Aged(now, 250), Aged(now, 250)>>,
      <<BadDate, Aged(now, 200)>> }

SotaInit ==
    /\ SynthIdle
    /\ RankIdle
    /\ TextIdle
    /\ KeywordIdle
    /\ st_pc = "search"
    /\ \E now \in Nows : \E range \in DateRanges(now) :
         /\ st_args \in [top_k : 0..MaxTopK, start_date : {range[1]},
                         end_date : {range[2]}, include_metrics : BOOLEAN,
                         api_key : BOOLEAN, now : {now}]
         /\ \E n \in 0..MaxEntries : st_feed \in [1..n -> EntryKinds(now)]
    /\ arxiv_results = <<>>
    /\ ranked_papers = <<>>
    /\ result = NoResult

\* lines 74-101: the result dict, step 1 and the early return
SearchArxiv ==
    /\ st_pc = "search"
    /\ \E outcome \in FetchOutcomes :
         LET found == search(st_feed, st_args.start_date, st_args.end_date,
                             outcome)
         IN /\ arxiv_results' = found
            /\ result' = [total_found |-> Len(found),
                          top_k |-> st_args.top_k, sota_papers |-> <<>>]
            /\ st_pc' = IF found = <<>> THEN "returned" ELSE "rank"
    /\ UNCHANGED <<st_args, st_feed, ranked_papers>>
    /\ UNCHANGED <<synthVars, rankVars, textVars>>

\* lines 103-109: step 2
RankPapers ==
    /\ st_pc = "rank"
    /\ \E llm \in LlmReplies(st_args.api_key, Len(arxiv_results)) :
         LET r == rank_papers(arxiv_results,
                              Min(st_args.top_k * 2, Len(arxiv_results)), llm)
         IN /\ ranked_papers' = r.papers
            /\ st_pc' = IF r.exc THEN "raised" ELSE "enrich"
    /\ UNCHANGED <<st_args, st_feed, arxiv_results, result>>
    /\ UNCHANGED <<synthVars, rankVars, textVars>>

\* lines 111-114: step 3
EnrichPapers ==
    /\ st_pc = "enrich"
    /\ ranked_papers' =
         IF st_args.include_metrics
         THEN enrich_papers(SubSeq(ranked_papers, 1,
                                   Min(st_args.top_k * 2, Len(ranked_papers))))
         ELSE ranked_papers
    /\ st_pc' = "final"
    /\ UNCHANGED <<st_args, st_feed, arxiv_results, result>>
    /\ UNCHANGED <<synthVars, rankVars, textVars>>

\* lines 116-130: steps 4 and 5 and the return; relevance_score * 0.50
\* raises TypeError for a score that is not a number
FinalRanking ==
    /\ st_pc = "final"
    /\ IF HasJunkScore(ranked_papers)
       THEN /\ st_pc' = "raised"
            /\ UNCHANGED result
       ELSE /\ result' =
                 [result EXCEPT !.sota_papers =
                    Explained(_compute_final_ranking(ranked_papers,
                                                     st_args.now,
                                                     st_args.top_k),
                              ranked_papers, st_args.api_key)]
            /\ st_pc' = "returned"
    /\ UNCHANGED <<st_args, st_feed, arxiv_results, ranked_papers>>
    /\ UNCHANGED <<synthVars, rankVars, textVars>>

SotaNext ==
    \/ SearchArxiv
    \/ RankPapers
    \/ EnrichPapers
    \/ FinalRanking

SpecSota == SotaInit /\ [][SotaNext]_vars

(***************************************************************************)
(* Properties of identify_sota (checked under SpecSota)                    *)
(***************************************************************************)
SotaReturned == st_pc = "returned"

\* C8: when identify_sota returns, sota_papers holds min(top_k, total_found)
\* records (exactly top_k when that many candidates were found),
\* total_found is the number of papers the search returned, none of them
\* outside a well-formed date range that was asked for, and every returned
\* record has a title and a paper_id that are strings, not None.
C8_TopKReturned ==
    SotaReturned =>
      /\ Len(result.sota_papers) = Min(st_args.top_k, result.total_found)
      /\ result.total_found >= st_args.top_k
           => Len(result.sota_papers) = st_args.top_k
      /\ result.total_found = Len(arxiv_results)
      /\ result.total_found <= Len(st_feed)
      /\ \A i \in 1..Len(arxiv_results) :
           LET d == arxiv_results[i].published_date IN
           /\ (st_args.start_date.t # "none" \/ st_args.end_date.t # "none")
                 => d.t # "none"
           /\ (st_args.start_date.t = "date" /\ d.t = "date")
                 => d.day >= st_args.start_date.day
           /\ (st_args.start_date.t = "none" /\ st_args.end_date.t = "date"
                 /\ d.t = "date")
                 => d.day <= st_args.end_date.day
      /\ \A i \in 1..Len(result.sota_papers) :
           /\ result.sota_papers[i].title.t = "str"
           /\ result.sota_papers[i].paper_id.t = "str"

\* three candidates found, the best two returned, one of them an entry
\* that came without a title element
C8_Witness ==
    /\ SotaReturned
    /\ st_args.top_k = 2
    /\ result.total_found = 3
    /\ Len(result.sota_papers) = 2
    /\ result.sota_papers[1].sota_rank = 1
    /\ result.sota_papers[2].sota_rank = 2
    /\ \E i \in 1..2 : result.sota_papers[i].title = Str(<<"Unknown", 0>>, 7)

\* rank_papers has returned its candidates
Ranked == st_pc \in {"enrich", "final"}

\* C20: every candidate rank_papers returns carries a relevance score that
\* is a number between 0 and 1, on the generated path, unscored tail
\* included, as on the keyword path.
C20_ScoreInUnitInterval ==
    Ranked =>
      \A i \in 1..Len(ranked_papers) :
        /\ ranked_papers[i].score.t = "num"
        /\ ranked_papers[i].score.v >= 0
        /\ ranked_papers[i].score.v <= 1000

\* the scoring request failed, or its reply is not an array of numbers as
\* long as the scores it is asked to give
FailedReply(llm, papers) ==
    \/ llm.kind \in {"failed", "not_json", "not_list"}
    \/ /\ llm.kind = "scores"
       /\ \E i \in 1..Min(llm.n, Len(papers)) : papers[i].env.llm.t # "num"

\* C21: whenever the scoring request fails or its reply is not a JSON array
\* of numbers, rank_papers returns without raising and every candidate it
\* returns carries its keyword-overlap score.
C21_FailureMeansKeywordScores ==
    [][st_pc = "rank" =>
         \A llm \in LlmReplies(st_args.api_key, Len(arxiv_results)) :
           LET r == rank_papers(arxiv_results,
                                Min(st_args.top_k * 2, Len(arxiv_results)),
                                llm)
           IN (/\ FailedReply(llm, arxiv_results)
               /\ ranked_papers' = r.papers
               /\ st_pc' = IF r.exc THEN "raised" ELSE "enrich")
              => /\ st_pc' = "enrich"
                 /\ \A i \in 1..Len(ranked_papers') :
                      ranked_papers'[i].score
                        = Score(ranked_papers'[i].env.kw)]_vars

\* the candidate's published date lies in the window asked for, a bound
\* that was not given leaving its side open
InWindow(p, start_date, end_date) ==
    /\ p.published_date.t = "date"
    /\ start_date.t = "date" => p.published_date.day >= start_date.day
    /\ end_date.t = "date" => p.published_date.day <= end_date.day

\* what the search is to return of the candidates parsed from the feed
KeptByWindow(candidates, start_date, end_date) ==
    IF start_date.t = "none" /\ end_date.t = "none" THEN candidates
    ELSE SelectSeq(candidates,
                   LAMBDA p : \/ InWindow(p, start_date, end_date)
                              \/ p.published_date.t = "bad")

\* C23: a search whose fetch succeeded, asked for well-formed dates or for
\* none, returns in feed order exactly the candidates published inside the
\* inclusive window together with those whose published date does not
\* parse, and none whose published date is absent; asked for no date it
\* returns every candidate.
C23_DateWindow ==
    [][(/\ st_pc = "search"
        /\ st_args.start_date.t # "bad"
        /\ st_args.end_date.t # "bad"
        /\ arxiv_results' = search(st_feed, st_args.start_date,
                                   st_args.end_date, "ok"))
         => arxiv_results' = KeptByWindow(_parse_response(st_feed),
                                          st_args.start_date,
                                          st_args.end_date)]_vars

\* a search between two dates that are the same day: of three candidates
\* the one published that day and the one with an unparseable date are
\* returned, the one published later is not
C23_Witness ==
    /\ st_pc = "rank"
    /\ st_args.start_date.t = "date"
    /\ st_args.end_date = st_args.start_date
    /\ Len(_parse_response(st_feed)) = 3
    /\ Len(arxiv_results) = 2
    /\ arxiv_results[1].published_date = st_args.start_date
    /\ arxiv_results[2].published_date = BadDate
    /\ \E i \in 1..3 :
         /\ _parse_response(st_feed)[i].published_date.t = "date"
         /\ _parse_response(st_feed)[i].published_date.day
              > st_args.end_date.day

\* the lookup of get_paper_by_arxiv_id for p finds nothing
LookupMisses(p) == p.env.s2.t = "absent"

\* C24: enrich_papers returns the candidates it was given, in the same
\* order; a candidate whose lookup finds nothing is returned as it was, its
\* citation count absent and not zero, and every candidate whose lookup
\* finds metrics carries them, those after a miss included.
C24_MissLeavesMetricsAbsent ==
    [][(st_pc = "enrich" /\ st_args.include_metrics) =>
         /\ Len(ranked_papers') = Len(ranked_papers)
         /\ \A i \in 1..Len(ranked_papers) :
              /\ ranked_papers'[i].paper_id = ranked_papers[i].paper_id
              /\ LookupMisses(ranked_papers[i]) =>
                   /\ ranked_papers'[i] = ranked_papers[i]
                   /\ ranked_papers'[i].citation_count = NoCount
              /\ ~LookupMisses(ranked_papers[i]) =>
                   /\ ranked_papers'[i].citation_count
                        = ranked_papers[i].env.s2
                   /\ [ranked_papers'[i] EXCEPT !.citation_count = NoCount]
                        = ranked_papers[i]]_vars

\* enriched: a miss on the first candidate, metrics on the second
C24_Witness ==
    /\ st_pc = "final"
    /\ st_args.include_metrics
    /\ Len(ranked_papers) >= 2
    /\ LookupMisses(ranked_papers[1])
    /\ ranked_papers[1].citation_count = NoCount
    /\ ~LookupMisses(ranked_papers[2])
    /\ ranked_papers[2].citation_count = Count(700)

(***************************************************************************)
(* Properties of the weakness stages (checked under Spec)                  *)
(***************************************************************************)
\* extract_from_paper has returned for document d
Extracted(d) ==
    \/ pc[1] \in {"normalize", "fuse", "synthesize", "compare"}
    \/ pc = <<"extract", "B">> /\ d = "A"
    \/ Done /\ "weaknesses_a" \in DOMAIN results

\* C12: once extract_from_paper has returned for a document with a
\* non-empty abstract, and no generation call has failed, the list of
\* weaknesses it returned is not empty.
C12_AbstractYieldsWeakness ==
    \A d \in Docs :
      (Extracted(d) /\ ~gen_failed /\ Truthy(paper[d].abstract))
         => raw[d] # <<>>

AtLeastMinLen(v) == v.t = "str" /\ v.len >= MinSectionLen

\* C13: in the loop over the four sections a generation call is issued for
\* the section at hand exactly when its text is present and at least 50
\* characters long.
C13_OneCallPerLongSection ==
    [][\A d \in Docs :
         (pc = <<"extract", d>> /\ sec \in DOMAIN Sections)
            => /\ AtLeastMinLen(paper[d][Sections[sec]]) => calls' = calls + 1
               /\ ~AtLeastMinLen(paper[d][Sections[sec]]) => calls' = calls]_vars

\* C14: normalize of an empty list returns the empty list and issues no
\* generation call: the step normalize takes for a document that has no raw
\* weaknesses leaves calls as it is and stores the empty list.
C14_EmptyInEmptyOut ==
    [][\A d \in Docs :
         (pc = <<"normalize", d>> /\ raw[d] = <<>>)
            => /\ norm'[d] = <<>>
               /\ calls' = calls
               /\ pc' = After("normalize", d)]_vars

\* normalize has returned for a document A that had no weaknesses, every
\* call before it having succeeded
C14_Witness ==
    /\ pc = <<"normalize", "B">>
    /\ ~gen_failed
    /\ raw["A"] = <<>>
    /\ norm["A"] = <<>>
    /\ raw["B"] # <<>>

(***************************************************************************)
(* Properties of the parse and synthesis stages (checked under Spec)       *)
(***************************************************************************)
\* parse_pdf has returned for document d
Parsed(d) == pc # <<"parse", "A">> /\ (d = "B" => pc # <<"parse", "B">>)
             /\ path[<<"parse", d>>] # "none" /\ paper[d] # NoPaper

\* C18: when the structuring response did not parse, the document returned
\* has the title "Unknown", the first 500 characters of the raw text as
\* abstract, the first 2000 as method, and null experiments and
\* limitations; over an empty raw text abstract and method are null.
C18_FallbackDocument ==
    \A d \in Docs :
      (Parsed(d) /\ path[<<"parse", d>>] = "fallback") =>
        /\ paper[d].paper_id = d
        /\ paper[d].title = Str("Unknown", 7)
        /\ paper[d].experiments = Null
        /\ paper[d].limitations = Null
        /\ text[d] > 0 =>
             /\ paper[d].abstract = Str("raw", Min(text[d], 500))
             /\ paper[d].method = Str("raw", Min(text[d], 2000))
        /\ text[d] = 0 =>
             /\ paper[d].abstract = Null
             /\ paper[d].method = Null

\* both fallbacks in one run: document A over a raw text of 2500
\* characters, document B over an empty one
C18_Witness ==
    /\ Parsed("A") /\ Parsed("B")
    /\ path[<<"parse", "A">>] = "fallback"
    /\ path[<<"parse", "B">>] = "fallback"
    /\ text["A"] = 2500 /\ text["B"] = 0
    /\ paper["A"].abstract = Str("raw", 500)
    /\ paper["A"].method = Str("raw", 2000)
    /\ paper["B"].abstract = Null

\* C19: the method synthesize returns has a non-empty name and every field
\* populated: a non-empty core idea and rationale and a list of at least
\* one component, on the parsed path as on the default path.
C19_MethodFullyPopulated ==
    pc = <<"compare", "-">> =>
      /\ NonEmptyText(proposed.method_name)
      /\ NonEmptyText(proposed.core_idea)
      /\ NonEmptyText(proposed.addresses_weaknesses)
      /\ proposed.components.t = "list"
      /\ Len(proposed.components.items) >= 1

(***************************************************************************)
(* Properties of the order of the stages (checked under Spec)              *)
(***************************************************************************)
\* the place of a statement of process in the order the claim gives
Position(p) ==
    CASE p = <<"parse", "A">> -> 1
      [] p = <<"parse", "B">> -> 2
      [] p = <<"extract", "A">> -> 3
      [] p = <<"extract", "B">> -> 4
      [] p = <<"normalize", "A">> -> 5
      [] p = <<"normalize", "B">> -> 6
      [] p = <<"fuse", "-">> -> 7
      [] p = <<"synthesize", "-">> -> 8
      [] p = <<"compare", "-">> -> 9
      [] OTHER -> 10

\* the stages before position n have produced their output, for both
\* documents where they take one
OutputsBefore(n) ==
    /\ n > 1 => paper["A"] # NoPaper /\ path[<<"parse", "A">>] # "none"
    /\ n > 2 => /\ paper["B"] # NoPaper /\ path[<<"parse", "B">>] # "none"
                /\ "paper_a" \in DOMAIN results
                /\ "paper_b" \in DOMAIN results
    /\ n > 6 => /\ results["weaknesses_a"] = List(norm["A"])
                /\ results["weaknesses_b"] = List(norm["B"])
    /\ n > 7 => analysis # NoAnalysis /\ "weakness_analysis" \in DOMAIN results
    /\ n > 8 => proposed # NoMethod /\ results["proposed_method"] = proposed

IsPrefix(a, b) == Len(a) <= Len(b) /\ SubSeq(b, 1, Len(a)) = a

\* the order the sections are to be processed in
FixedOrder == <<"method", "experiments", "limitations", "abstract">>

\* C27: while extract_from_paper runs for a document, the loop takes the
\* sections in the order method, experiments, limitations, abstract, one
\* per iteration; the section a call is issued for is the one at hand in
\* that order; the list only grows, by the items extracted from the
\* response for that section put at its end, and is left alone when the
\* section is skipped.
C27_SectionOrderAppendOnly ==
    [][\A d \in Docs :
         pc = <<"extract", d>> =>
           /\ IsPrefix(raw[d], raw'[d])
           /\ sec \in 1..4 =>
                /\ sec' = sec + 1 \/ (sec' = sec /\ pc' = <<"done", "-">>)
                /\ calls' # calls <=>
                     (/\ Truthy(paper[d][FixedOrder[sec]])
                      /\ paper[d][FixedOrder[sec]].len > 50)
                /\ calls' = calls => raw'[d] = raw[d]
                /\ (calls' # calls /\ pc' = pc) =>
                     \E response \in MinerResponses :
                       raw'[d] = raw[d] \o _extract_from_section(response)
           /\ \A e \in Docs \ {d} : raw'[e] = raw[e]]_vars

\* the loop over the sections of document A has ended after two sections
\* gave items, every call having succeeded
C27_Witness ==
    /\ pc = <<"extract", "A">>
    /\ sec = 5
    /\ ~gen_failed
    /\ calls = 4
    /\ Len(raw["A"]) = 6

(***************************************************************************)
(* SpecMine: extract_from_paper for both documents, started where process  *)
(* calls it, on every pair of the parsed documents of MinePapers           *)
(***************************************************************************)
\* parsed documents as parse_pdf returns them: all four sections long
\* enough; nothing at all; a short abstract alone; an empty abstract and a
\* method of 50 characters; the two sections of the fallback record
MinePapers ==
    { [title |-> Str("title", 40), abstract |-> Str("abs", 300),
       method |-> Str("meth", 51), experiments |-> Str("exp", 60),
       limitations |-> Str("lim", 200)],
      [title |-> Str("title", 40), abstract |-> Null, method |-> Null,
       experiments |-> Null, limitations |-> Null],
      [title |-> Null, abstract |-> Str("abs", 40), method |-> Null,
       experiments |-> Null, limitations |-> Null],
      [title |-> Str("title", 40), abstract |-> Str("", 0),
       method |-> Str("meth", 50), experiments |-> Null,
       limitations |-> Str("", 0)],
      [title |-> Str("Unknown", 7), abstract |-> Str("raw", 500),
       method |-> Str("raw", 2000), experiments |-> Null,
       limitations |-> Null] }

MineInit ==
    /\ text = [d \in Docs |-> 2500]
    /\ pc = <<"extract", "A">>
    /\ sec = 1
    /\ \E parsed \in [Docs -> MinePapers] :
         paper = [d \in Docs |-> [paper_id |-> d] @@ parsed[d]]
    /\ raw = [d \in Docs |-> <<>>]
    /\ norm = [d \in Docs |-> <<>>]
    /\ analysis = NoAnalysis
    /\ proposed = NoMethod
    /\ results = ("paper_a" :> paper["A"]) @@ ("paper_b" :> paper["B"])
    /\ reply = NoReply
    /\ calls = 2
    /\ gen_failed = FALSE
    /\ path = [s \in JsonStages |->
                 IF s[1] = "parse" THEN "parsed" ELSE "none"]
    /\ RankIdle
    /\ SotaIdle
    /\ TextIdle
    /\ KeywordIdle

MineNext ==
    \/ \E d \in Docs : MineSection(d)
    \/ \E d \in Docs : SkipSection(d)
    \/ \E d \in Docs : ForcedPass(d)
    \/ \E d \in Docs : ExtractReturn(d)

SpecMine == MineInit /\ [][MineNext]_vars

(***************************************************************************)
(* Properties of the forced pass (checked under SpecMine)                  *)
(***************************************************************************)
\* the document has no abstract and no section longer than 50 characters
NothingToMine(d) ==
    /\ ~Truthy(paper[d].abstract)
    /\ \A k \in 1..4 : ~(/\ Truthy(paper[d][FixedOrder[k]])
                         /\ paper[d][FixedOrder[k]].len > 50)

\* C28: when the loop over the sections has ended, extract_from_paper
\* issues one more call exactly when the list is empty and the document
\* has a non-empty abstract, and returns after it either way; so a document
\* costs at most 5 calls (2 calls were made before document A, at most 7
\* before document B and at most 12 when both are done), and none when it
\* has no abstract and no section longer than 50 characters.
C28_ForcedPassOnce ==
    [][\A d \in Docs :
         pc = <<"extract", d>> =>
           /\ calls' \in {calls, calls + 1}
           /\ sec \in 1..4 => sec' = sec + 1 \/ pc' # pc
           /\ sec = 5 =>
                /\ calls' = calls + 1
                     <=> (raw[d] = <<>> /\ Truthy(paper[d].abstract))
                /\ pc' # pc
           /\ NothingToMine(d) => calls' = calls
           /\ d = "A" => calls' <= 2 + 5
           /\ d = "B" => calls' <= 2 + 5 + 5]_vars

\* document A has cost five calls, none of which failed: four sections
\* that gave nothing and the forced pass
C28_Witness ==
    /\ pc = <<"extract", "B">>
    /\ sec = 1
    /\ ~gen_failed
    /\ calls = 7

(***************************************************************************)
(* SpecProcess: process from its first statement to its return or its      *)
(* exception, on documents whose four sections are all long enough to be   *)
(* mined, with the fairness of a thread that takes its next step whenever  *)
(* it has one                                                              *)
(***************************************************************************)
\* the structuring response for a document with four long sections, and a
\* response that does not parse
LongResponses ==
    { Plain(Obj([title |-> Str("title", 40), abstract |-> Str("abs", 300),
                 method |-> Str("meth", 51), experiments |-> Str("exp", 60),
                 limitations |-> Str("lim", 200)])),
      Plain(NotJson) }

ProcessInit == Init /\ text = [d \in Docs |-> 2500]

ProcessNext ==
    \/ \E d \in Docs : ParsePdfOn(d, LongResponses)
    \/ \E d \in Docs : MineSection(d)
    \/ \E d \in Docs : SkipSection(d)
    \/ \E d \in Docs : ForcedPass(d)
    \/ \E d \in Docs : ExtractReturn(d)
    \/ \E d \in Docs : NormalizeEmpty(d)
    \/ \E d \in Docs : Normalize(d)
    \/ Fuse
    \/ SynthesizeRaises
    \/ Synthesize
    \/ CompareRaises
    \/ Compare

SpecProcess == ProcessInit /\ [][ProcessNext]_vars /\ WF_vars(ProcessNext)

(***************************************************************************)
(* Properties of process as a whole (checked under SpecProcess)            *)
(***************************************************************************)
\* C30: process never has more than 17 generation calls behind it, and
\* every run of it ends, with the result returned or with an exception
\* raised.
C30_BoundedCallsThenEnds == [](calls <= 17) /\ <>Done

\* process has returned its result after 17 calls, none of which failed
C30_Witness ==
    /\ Done
    /\ reply.status = 200
    /\ ~gen_failed
    /\ calls = 17

(***************************************************************************)
(* SpecText: _extract_from_section and the parsing loop of normalize on    *)
(* every response of up to MaxLines lines, and the decoding of every       *)
(* object text of ObjectTexts sent plain, in a fence and between prose     *)
(***************************************************************************)
MaxLines == 3

LineKinds ==
    { Line("-", Str("Weak sample size", 16)),
      Line("*", Str("N/A", 3)),
      Line("1.", Str("Missing baseline", 16)),
      Line("", Str("random prose", 12)),
      Line("1)", Str("Not applicable", 14)),
      Line("12.", Str("No ablation", 11)),
      Line("literal", Str("w5", 18)),
      Line("bullet", Str("w4", 15)),
      Line("dash", Str("w6", 15)),
      Line("-", Str("", 0)),
      Line("-", Str("w7", 10)),
      Line("*", Str("Not applicable", 14)) }

\* the length of the raw text the structuring stage falls back on
DecodedRawLen == 2500

\* texts of JSON objects: objects of the shapes the stages ask for, and
\* objects whose string holds words, a fence, or a fenced number
ObjectTexts ==
    { <<Val(b)>> : b \in {x \in ParseBodies \cup SynthesisBodies : x.t = "obj"} }
    \cup { <<Open, Prose, Close>>,
           <<Open, Fence, Close>>,
           <<Open, Fence, Digit, Fence, Close>>,
           <<Open, Fence, Tag, Digit, Fence, Close>> }

Forms == {"plain", "json", "bare", "prose"}

\* the object text as a service may send it
Sent(form, object) ==
    CASE form = "json" -> <<Fence, Tag, Nl>> \o object \o <<Nl, Fence>>
      [] form = "bare" -> <<Fence, Nl>> \o object \o <<Nl, Fence>>
      [] form = "prose" -> <<Prose, Nl>> \o object \o <<Nl, Prose>>
      [] OTHER -> object

\* what the decoding and each stage built on it make of a response
StageResults(response) ==
    [data |-> Loads(response),
     paper |-> parse_pdf(DecodedRawLen, response, "A"),
     analysis |-> fusion_analyze(response, <<>>, <<>>),
     method |-> synthesize_parse(response),
     table |-> generate_comparison_parse(response)]

TextInit ==
    /\ SynthIdle
    /\ RankIdle
    /\ SotaIdle
    /\ tx_pc = "call"
    /\ \E n \in 0..MaxLines : tx_response \in [1..n -> LineKinds]
    /\ tx_weaknesses = <<>>
    /\ nz_pc = "call"
    /\ nz_normalized = <<>>
    /\ js_pc = "call"
    /\ js_object \in ObjectTexts
    /\ js_out = <<>>
    /\ KeywordIdle

ExtractFromSection ==
    /\ tx_pc = "call"
    /\ tx_weaknesses' = _extract_from_section(tx_response)
    /\ tx_pc' = "returned"
    /\ UNCHANGED <<tx_response, nz_pc, nz_normalized, js_pc, js_object, js_out>>
    /\ UNCHANGED <<kw_pc, kw_query, kw_papers, kw_out>>
    /\ UNCHANGED <<synthVars, rankVars, sotaVars>>

\* lines 354-363 of normalize on the response text
NormalizeParse ==
    /\ nz_pc = "call"
    /\ nz_normalized' = normalize_parse(tx_response)
    /\ nz_pc' = "returned"
    /\ UNCHANGED <<tx_pc, tx_response, tx_weaknesses, js_pc, js_object, js_out>>
    /\ UNCHANGED <<kw_pc, kw_query, kw_papers, kw_out>>
    /\ UNCHANGED <<synthVars, rankVars, sotaVars>>

DecodeForms ==
    /\ js_pc = "call"
    /\ js_out' = [f \in Forms |-> StageResults(Sent(f, js_object))]
    /\ js_pc' = "returned"
    /\ UNCHANGED <<js_object, tx_pc, tx_response, tx_weaknesses, nz_pc,
                   nz_normalized>>
    /\ UNCHANGED <<kw_pc, kw_query, kw_papers, kw_out>>
    /\ UNCHANGED <<synthVars, rankVars, sotaVars>>

TextNext ==
    \/ ExtractFromSection
    \/ NormalizeParse
    \/ DecodeForms

SpecText == TextInit /\ [][TextNext]_vars

(***************************************************************************)
(* Properties of the text functions (checked under SpecText)               *)
(***************************************************************************)
\* the list extraction as the specification words it: a line is an item
\* when it starts with "-", "*" or a number followed by "." or ")"; items
\* that are empty or read none, n/a or not applicable are dropped
ItemBySpec(l) ==
    /\ l.mark \in {"-", "*", "1.", "1)", "12.", "12)"}
    /\ l.item.len > 0
    /\ Lower(l.item.id) \notin {"none", "n/a", "not applicable"}

extractBulletList(response) == Items(SelectSeq(response, ItemBySpec))

\* the markers both texts are plain about
PlainMarks == {"-", "*", "1.", "1)", "12.", "12)", ""}

\* C15: for every response whose lines start with "-", "*", a number marker
\* or no marker at all, _extract_from_section returns exactly the items of
\* extractBulletList: numbered items of any number of digits included,
\* "not applicable" dropped under every marker, unmarked lines ignored.
C15_ExtractionMatchesSpec ==
    (tx_pc = "returned"
       /\ \A i \in 1..Len(tx_response) : tx_response[i].mark \in PlainMarks)
      => tx_weaknesses = extractBulletList(tx_response)

\* items of fewer than 11 characters dropped from the specified list
normalizeBySpec(response) ==
    Items(SelectSeq(response, LAMBDA l : ItemBySpec(l) /\ l.item.len >= 11))

\* C25: for every response whose lines start with "-", "*", a number marker
\* or no marker at all, the list normalize builds is the list
\* extractBulletList gives (bullet and numbered items alike, none, n/a and
\* not applicable dropped) without its items of fewer than 11 characters,
\* in response order.
C25_NormalizerMatchesSpec ==
    (nz_pc = "returned"
       /\ \A i \in 1..Len(tx_response) : tx_response[i].mark \in PlainMarks)
      => nz_normalized = normalizeBySpec(tx_response)

\* C16: for every JSON object text, what the stages extract from the text
\* in a fence with or without the json tag is what they extract from the
\* text alone.
C16_FenceTransparent ==
    js_pc = "returned" =>
      /\ js_out["json"] = js_out["plain"]
      /\ js_out["bare"] = js_out["plain"]

\* C17: for every JSON object text, a response of prose, the object and
\* prose without a fence is decoded to that object, and the stages use it
\* as they use the object sent alone.
C17_ProseTolerated ==
    (js_pc = "returned" /\ js_out["plain"].data.t = "obj")
      => /\ js_out["prose"].data = js_out["plain"].data
         /\ js_out["prose"] = js_out["plain"]

(***************************************************************************)
(* SpecKeyword: SemanticEngine._keyword_score_papers on every query of up  *)
(* to MaxQueryWords words and every list of up to MaxKeywordPapers papers  *)
(***************************************************************************)
\* A word of a text: its letters in lower case and whether the text writes
\* it with capitals.  A text is the sequence of the words split() gives.
Word(w, up) == [w |-> w, up |-> up]

\* the words of a text kept as they are written
WordsAsWritten(words) == {words[i] : i \in DOMAIN words}

\* set(text.lower().split())
LowerWords(words) == {Word(words[i].w, FALSE) : i \in DOMAIN words}

\* the value 1.0 of a keyword score, a multiple of 10 * n for every number
\* n of query words met
KeywordOne == 60 * 100

\* the body of the loop of _keyword_score_papers
keyword_score(query, title, abstract) ==
    LET query_words == LowerWords(query)
        text_words == LowerWords(title \o abstract)
        overlap == Cardinality(query_words \cap text_words)
        max_possible == Cardinality(query_words)
        title_words == LowerWords(title)
        title_overlap == Cardinality(query_words \cap title_words)
    IN IF max_possible > 0
       THEN LET base_score == (overlap * KeywordOne) \div max_possible
                title_bonus ==
                    (((title_overlap * KeywordOne) \div max_possible) * 3) \div 10
            IN Min(KeywordOne,
                   (base_score * 7) \div 10 + title_bonus + KeywordOne \div 10)
       ELSE KeywordOne \div 2

MaxQueryWords == 3
MaxKeywordPapers == 2

QueryWords == {Word("a", FALSE), Word("a", TRUE), Word("b", FALSE)}

Titles ==
    { <<>>,
      <<Word("a", TRUE)>>,
      <<Word("b", FALSE), Word("c", FALSE)>>,
      <<Word("a", FALSE), Word("b", TRUE)>> }

Abstracts ==
    { <<>>,
      <<Word("a", FALSE)>>,
      <<Word("b", TRUE), Word("a", FALSE)>>,
      <<Word("c", FALSE)>> }

KeywordInit ==
    /\ SynthIdle
    /\ RankIdle
    /\ SotaIdle
    /\ TextIdle
    /\ kw_pc = "call"
    /\ \E n \in 0..MaxQueryWords : kw_query \in [1..n -> QueryWords]
    /\ \E n \in 0..MaxKeywordPapers :
         kw_papers \in [1..n -> [title : Titles, abstract : Abstracts]]
    /\ kw_out = <<>>

KeywordScorePapers ==
    /\ kw_pc = "call"
    /\ kw_out' = [i \in 1..Len(kw_papers) |->
                    [title |-> kw_papers[i].title,
                     abstract |-> kw_papers[i].abstract,
                     score |-> keyword_score(kw_query, kw_papers[i].title,
                                             kw_papers[i].abstract)]]
    /\ kw_pc' = "returned"
    /\ UNCHANGED <<kw_query, kw_papers>>
    /\ UNCHANGED <<tx_pc, tx_response, tx_weaknesses, nz_pc, nz_normalized,
                   js_pc, js_object, js_out>>
    /\ UNCHANGED <<synthVars, rankVars, sotaVars>>

KeywordNext == KeywordScorePapers

SpecKeyword == KeywordInit /\ [][KeywordNext]_vars

(***************************************************************************)
(* Properties of _keyword_score_papers (checked under SpecKeyword)         *)
(***************************************************************************)
\* the letters of the words of a text, whatever their case
Letters(words) == {words[i].w : i \in DOMAIN words}

\* n: the distinct lower-cased topic words
TopicWordCount(query) == Cardinality(Letters(query))

\* o: those that occur in the title or the abstract
TopicWordOverlap(query, p) ==
    Cardinality(Letters(query) \cap (Letters(p.title) \cup Letters(p.abstract)))

\* t: those that occur in the title
TitleWordOverlap(query, p) == Cardinality(Letters(query) \cap Letters(p.title))

\* min(1, 0.7 * (o / n) + 0.3 * (t / n) + 0.1), times 10 * n * KeywordOne
\* on both sides to stay in the integers
IsFallbackScore(score, o, t, n) ==
    10 * n * score = Min(10 * n * KeywordOne, (7 * o + 3 * t + n) * KeywordOne)

\* C22: every paper _keyword_score_papers returns carries the score
\* min(1, 0.7 * (o / n) + 0.3 * (t / n) + 0.1), n being the number of
\* distinct lower-cased query words, o the number of them among the words
\* of title and abstract and t the number among the words of the title;
\* with no query word every paper gets 0.5.
C22_KeywordFormula ==
    kw_pc = "returned" =>
      /\ Len(kw_out) = Len(kw_papers)
      /\ \A i \in 1..Len(kw_papers) :
           LET n == TopicWordCount(kw_query)
               o == TopicWordOverlap(kw_query, kw_papers[i])
               t == TitleWordOverlap(kw_query, kw_papers[i])
           IN /\ n > 0 => IsFallbackScore(kw_out[i].score, o, t, n)
              /\ n = 0 => 2 * kw_out[i].score = KeywordOne

\* the query "A a b" (two distinct words) over two papers: one with both
\* words in its title, capped at 1, and one with a word in the title and
\* the other in the abstract written with a capital, at 0.95
C22_Witness ==
    /\ kw_pc = "returned"
    /\ kw_query = <<Word("a", TRUE), Word("a", FALSE), Word("b", FALSE)>>
    /\ Len(kw_out) = 2
    /\ kw_out[1].title = <<Word("a", FALSE), Word("b", TRUE)>>
    /\ kw_out[1].score = KeywordOne
    /\ kw_out[2].title = <<Word("a", TRUE)>>
    /\ kw_out[2].abstract = <<Word("b", TRUE), Word("a", FALSE)>>
    /\ 100 * kw_out[2].score = 95 * KeywordOne

=============================================================================
